---------------------------- MODULE Spec2Model ----------------------------
(***************************************************************************)
(* A model of the core of cargo-mutants:                                   *)
(*   - console.rs  style_outcome, Activity::outcome                        *)
(*   - visit.rs    walk_tree, walk_file, DiscoveryVisitor and its helpers  *)
(*   - cargo.rs    cargo_argv, CargoSourceTree::rustflags,                 *)
(*                 should_mutate_target, run_cargo                         *)
(*                                                                         *)
(* Strings of the program are sequences of one-character strings, so that  *)
(* splitting, joining and suffix tests are computed, not assumed.          *)
(* Each component is a small state machine with a specification of its     *)
(* own; the variables of the other components stay at their idle values.   *)
(***************************************************************************)
EXTENDS Integers, Sequences, FiniteSets, TLC

VARIABLES
    \* console.rs
    outcome,        \* the Outcome the driver is about to report
    reported,       \* the Outcomes handed to Activity::outcome so far
    stdout,         \* the styled status printed for each of them
    \* cargo.rs, cargo_argv
    env_CARGO,      \* the CARGO environment variable, if set
    package_name,   \* cargo_argv's package_name: Option<&str>
    phase,          \* cargo_argv's phase
    cargo_args,     \* the argv cargo_argv returned, once called
    \* cargo.rs, CargoSourceTree::rustflags
    env_CARGO_ENCODED_RUSTFLAGS,    \* the environment variable, if set
    env_RUSTFLAGS,                  \* the environment variable, if set
    rustflags_result,               \* the string rustflags() returned, once called
    \* the Options, which cargo_argv and walk_tree read
    options,
    \* visit.rs, collect_fn_mutants on one function
    sig_output,     \* the return type of the function visited (its sig.output)
    collected,      \* the mutants collected for it, once visited
    \* visit.rs, walk_tree
    source_tree,    \* the tree: its root files and the files under its root
    file_queue,     \* walk_tree's file_queue
    popped,         \* walk_tree's source_file, while the body of its loop runs
    mutants,        \* walk_tree's mutants
    seen_files,     \* walk_tree's seen_files
    walk_result,    \* what walk_tree returned, once it has
    interrupted,    \* the process-wide interrupt flag
    times_dequeued, \* history: per path, how often it was dequeued (counted to 2)
    first_result,   \* history: what an earlier walk of the same tree returned
    \* cargo.rs, should_mutate_target
    target_kind,    \* the kind list of the target
    mutate_target,  \* what should_mutate_target returned, once called
    \* visit.rs, remove_excess_spaces
    text_in,        \* the string given to it
    text_out,       \* the string it returned, once called
    \* cargo.rs, run_cargo
    pc,             \* where run_cargo is: "start", "loop", "finish" or "done"
    child,          \* the child process: "none", "running", "exited" or "terminated"
    exit_status,    \* the status the child exited with, once it has
    timeout,        \* run_cargo's timeout, in poll intervals
    elapsed,        \* the time since the child started, in poll intervals
    ticks,          \* how often console.tick() was called
    sleeps,         \* how often sleep(WAIT_POLL_INTERVAL) was called
    process_status, \* run_cargo's process_status, once the loop has broken
    run_result      \* what run_cargo returned, once it has

consoleVars == <<outcome, reported, stdout>>

argvVars == <<env_CARGO, package_name, phase, cargo_args>>

flagsVars == <<env_CARGO_ENCODED_RUSTFLAGS, env_RUSTFLAGS, rustflags_result>>

opsVars == <<sig_output, collected>>

walkVars == <<source_tree, file_queue, popped, mutants, seen_files, walk_result,
              interrupted, times_dequeued, first_result>>

pureVars == <<target_kind, mutate_target, text_in, text_out>>

runVars == <<pc, child, exit_status, timeout, elapsed, ticks, sleeps, process_status,
             run_result>>

vars == <<consoleVars, argvVars, flagsVars, options, opsVars, walkVars, pureVars, runVars>>

(***************************************************************************)
(* Bounds of the model.                                                    *)
(***************************************************************************)
\* How many outcomes the console prints in one run of the model.
MaxPrinted == 2

\* The longest list of additional cargo (test) arguments.
MaxExtraArgs == 2

\* The longest value of an environment variable holding compiler flags.
MaxEnvLen == 3

\* The most segments of a return type's path.
MaxSegments == 2

\* The deepest nesting of cfg_attr lists around mutants::skip.
MaxCfgAttrDepth == 3

\* walk_tree's lists grow without limit when a file is walked again and
\* again; the model stops walking at these lengths.
MaxSeen == 4

MaxMutants == 8

(***************************************************************************)
(* Generic helpers.                                                        *)
(***************************************************************************)
\* Option<T>: None is the empty sequence, Some(v) the one-element sequence.
None == <<>>

Some(v) == <<v>>

is_some(o) == o # <<>>

\* Option::unwrap.
unwrap(o) == o[1]

\* All sequences over S of length at most n.
SeqUpTo(S, n) == UNION {[1..k -> S] : k \in 0..n}

Last(s) == s[Len(s)]

Front(s) == SubSeq(s, 1, Len(s) - 1)

RECURSIVE Flatten(_)
\* Concatenation of a sequence of sequences.
Flatten(ss) == IF ss = <<>> THEN <<>> ELSE Head(ss) \o Flatten(Tail(ss))

(***************************************************************************)
(* console.rs: the outcome classifier.                                     *)
(***************************************************************************)
Scenarios == {"SourceTree", "Baseline", "Mutant"}

Phases == {"Check", "Build", "Test"}

CargoResults == {"Success", "Failure", "Timeout"}

Outcomes == [scenario : Scenarios, phase : Phases, cargo_result : CargoResults]

\* console::style(text) with the colour and weight the code asks for.
style(text, color, bold) == [text |-> text, color |-> color, bold |-> bold]

\* A plausible slip in the match: the two Test arms swapped.
style_outcome_swapped(o) ==
    IF o.scenario \in {"SourceTree", "Baseline"}
    THEN CASE o.cargo_result = "Success" -> style("ok", "green", FALSE)
           [] o.cargo_result = "Failure" -> style("FAILED", "red", TRUE)
           [] o.cargo_result = "Timeout" -> style("TIMEOUT", "red", TRUE)
    ELSE CASE o.phase = "Test" /\ o.cargo_result = "Failure" -> style("NOT CAUGHT", "red", TRUE)
           [] o.phase = "Test" /\ o.cargo_result = "Success" -> style("caught", "green", FALSE)
           [] o.phase = "Build" /\ o.cargo_result = "Success" -> style("build ok", "green", FALSE)
           [] o.phase = "Check" /\ o.cargo_result = "Success" -> style("check ok", "green", FALSE)
           [] o.phase = "Build" /\ o.cargo_result = "Failure" -> style("build failed", "yellow", FALSE)
           [] o.phase = "Check" /\ o.cargo_result = "Failure" -> style("check failed", "yellow", FALSE)
           [] o.cargo_result = "Timeout" -> style("TIMEOUT", "red", TRUE)

\* style_outcome: the match of console.rs, arm by arm. A CASE with no OTHER
\* arm has no value when no arm matches, as a non-exhaustive match would.
style_outcome(o) ==
    IF o.scenario \in {"SourceTree", "Baseline"}
    THEN CASE o.cargo_result = "Success" -> style("ok", "green", FALSE)
           [] o.cargo_result = "Failure" -> style("FAILED", "red", TRUE)
           [] o.cargo_result = "Timeout" -> style("TIMEOUT", "red", TRUE)
    ELSE CASE o.phase = "Test" /\ o.cargo_result = "Failure" -> style("caught", "green", FALSE)
           [] o.phase = "Test" /\ o.cargo_result = "Success" -> style("NOT CAUGHT", "red", TRUE)
           [] o.phase = "Build" /\ o.cargo_result = "Success" -> style("build ok", "green", FALSE)
           [] o.phase = "Check" /\ o.cargo_result = "Success" -> style("check ok", "green", FALSE)
           [] o.phase = "Build" /\ o.cargo_result = "Failure" -> style("build failed", "yellow", FALSE)
           [] o.phase = "Check" /\ o.cargo_result = "Failure" -> style("check failed", "yellow", FALSE)
           [] o.cargo_result = "Timeout" -> style("TIMEOUT", "red", TRUE)

ConsoleInit ==
    /\ outcome \in Outcomes
    /\ reported = <<>>
    /\ stdout = <<>>

ConsoleIdle ==
    /\ outcome = <<>>
    /\ reported = <<>>
    /\ stdout = <<>>

\* Activity::outcome: finish(style_outcome(outcome)) prints the styled status;
\* the driver then moves on to the next outcome.
Activity_outcome ==
    /\ Len(stdout) < MaxPrinted
    /\ stdout' = Append(stdout, style_outcome(outcome))
    /\ reported' = Append(reported, outcome)
    /\ outcome' \in Outcomes
    /\ UNCHANGED <<argvVars, flagsVars, options, opsVars, walkVars, pureVars, runVars>>


(***************************************************************************)
(* Strings: a String is a sequence of one-character strings.               *)
(***************************************************************************)
\* The unit separator, '\x1f'.
US == "\\x1f"

SP == " "

\* The position of the first c in s, or 0.
find(s, c) ==
    IF \E i \in 1..Len(s) : s[i] = c
    THEN CHOOSE i \in 1..Len(s) : s[i] = c /\ \A j \in 1..(i - 1) : s[j] # c
    ELSE 0

RECURSIVE split(_, _)
\* str::split(c): the pieces between the occurrences of c, one more than
\* there are occurrences, so that "" splits to [""] and "a," to ["a", ""].
split(s, c) ==
    LET i == find(s, c)
    IN  IF i = 0
        THEN <<s>>
        ELSE <<SubSeq(s, 1, i - 1)>> \o split(SubSeq(s, i + 1, Len(s)), c)

RECURSIVE join(_, _)
\* [String]::join(sep): "" for no strings, no separator before the first.
join(list, sep) ==
    IF list = <<>> THEN <<>>
    ELSE IF Len(list) = 1 THEN list[1]
    ELSE list[1] \o sep \o join(Tail(list), sep)

\* str::ends_with(suffix).
str_ends_with(s, suffix) ==
    /\ Len(suffix) <= Len(s)
    /\ SubSeq(s, Len(s) - Len(suffix) + 1, Len(s)) = suffix

(***************************************************************************)
(* cargo.rs: cargo_argv.                                                   *)
(***************************************************************************)
\* Phase::name, as the tests of cargo.rs show it.
phase_name(ph) ==
    CASE ph = "Check" -> "check"
      [] ph = "Build" -> "build"
      [] ph = "Test" -> "test"

\* cargo_bin: $CARGO, else "cargo".
cargo_bin == IF is_some(env_CARGO) THEN unwrap(env_CARGO) ELSE "cargo"

\* A plausible slip: the test arguments appended in every phase.
cargo_argv_test_args_always(package, ph, opts) ==
    LET a1 == <<cargo_bin, phase_name(ph)>>
        a2 == IF ph = "Check" \/ ph = "Build" THEN Append(a1, "--tests") ELSE a1
        a3 == IF is_some(package)
              THEN a2 \o <<"--package", unwrap(package)>>
              ELSE Append(a2, "--workspace")
        a4 == a3 \o opts.additional_cargo_args
    IN  a4 \o opts.additional_cargo_test_args

\* cargo_argv: each let is one statement of the function.
cargo_argv(package, ph, opts) ==
    LET a1 == <<cargo_bin, phase_name(ph)>>
        a2 == IF ph = "Check" \/ ph = "Build" THEN Append(a1, "--tests") ELSE a1
        a3 == IF is_some(package)
              THEN a2 \o <<"--package", unwrap(package)>>
              ELSE Append(a2, "--workspace")
        a4 == a3 \o opts.additional_cargo_args
    IN  IF ph = "Test" THEN a4 \o opts.additional_cargo_test_args ELSE a4

\* Options::default().
DefaultOptions ==
    [examine_globset |-> None, exclude_globset |-> None,
     examine_names |-> None, exclude_names |-> None,
     additional_cargo_args |-> <<>>, additional_cargo_test_args |-> <<>>]

\* The arguments a user may add are ExtraArgs; some collide with the ones
\* cargo_argv adds, as one package name does.
ArgvInit ==
    LET ExtraArgs == {"--release", "--lib", "--tests", "--workspace"}
        PackageNames == {"cargo-mutants-testdata-something", "--workspace"}
    IN  /\ env_CARGO \in {None, Some("/toolchain/bin/cargo")}
        /\ package_name \in {None} \cup {Some(n) : n \in PackageNames}
        /\ phase \in Phases
        /\ options \in [examine_globset : {None}, exclude_globset : {None},
                        examine_names : {None}, exclude_names : {None},
                        additional_cargo_args : SeqUpTo(ExtraArgs, MaxExtraArgs),
                        additional_cargo_test_args : SeqUpTo(ExtraArgs, MaxExtraArgs)]
        /\ cargo_args = None

ArgvIdle ==
    /\ env_CARGO = None
    /\ package_name = None
    /\ phase = "Check"
    /\ cargo_args = None

\* One call of cargo_argv.
CargoArgv ==
    /\ cargo_args = None
    /\ cargo_args' = Some(cargo_argv(package_name, phase, options))
    /\ UNCHANGED <<env_CARGO, package_name, phase, options>>
    /\ UNCHANGED <<consoleVars, flagsVars, opsVars, walkVars, pureVars, runVars>>

\* The driver goes on to the next phase of the same scenario.
NextPhase ==
    /\ cargo_args # None
    /\ phase # "Test"
    /\ phase' = IF phase = "Check" THEN "Build" ELSE "Test"
    /\ cargo_args' = None
    /\ UNCHANGED <<env_CARGO, package_name, options>>
    /\ UNCHANGED <<consoleVars, flagsVars, opsVars, walkVars, pureVars, runVars>>

ArgvNext == CargoArgv \/ NextPhase

(***************************************************************************)
(* cargo.rs: CargoSourceTree::rustflags.                                   *)
(***************************************************************************)
CapLints == <<"-", "-", "c", "a", "p", "-", "l", "i", "n", "t", "s", "=",
              "a", "l", "l", "o", "w">>

\* A plausible slip: --cap-lints=allow put first, not last.
rustflags_cap_first ==
    LET base ==
            IF is_some(env_CARGO_ENCODED_RUSTFLAGS)
            THEN split(unwrap(env_CARGO_ENCODED_RUSTFLAGS), US)
            ELSE IF is_some(env_RUSTFLAGS)
            THEN split(unwrap(env_RUSTFLAGS), SP)
            ELSE <<>>
    IN  join(<<CapLints>> \o base, <<US>>)

\* A plausible slip: the precedence of the two variables swapped.
rustflags_precedence_swapped ==
    LET base ==
            IF is_some(env_RUSTFLAGS)
            THEN split(unwrap(env_RUSTFLAGS), SP)
            ELSE IF is_some(env_CARGO_ENCODED_RUSTFLAGS)
            THEN split(unwrap(env_CARGO_ENCODED_RUSTFLAGS), US)
            ELSE <<>>
    IN  join(Append(base, CapLints), <<US>>)

\* rustflags: the flag list from the environment, then --cap-lints=allow,
\* joined with the unit separator.
rustflags ==
    LET base ==
            IF is_some(env_CARGO_ENCODED_RUSTFLAGS)
            THEN split(unwrap(env_CARGO_ENCODED_RUSTFLAGS), US)
            ELSE IF is_some(env_RUSTFLAGS)
            THEN split(unwrap(env_RUSTFLAGS), SP)
            ELSE <<>>
    IN  join(Append(base, CapLints), <<US>>)

\* The characters of an environment value: a letter, a character of
\* --cap-lints=allow, and the two separators.
FlagsInit ==
    LET EnvChars == {"a", "-", SP, US}
        EnvValues == {None} \cup {Some(v) : v \in SeqUpTo(EnvChars, MaxEnvLen)}
    IN  /\ env_CARGO_ENCODED_RUSTFLAGS \in EnvValues
        /\ env_RUSTFLAGS \in EnvValues
        /\ rustflags_result = None

FlagsIdle ==
    /\ env_CARGO_ENCODED_RUSTFLAGS = None
    /\ env_RUSTFLAGS = None
    /\ rustflags_result = None

\* One call of rustflags().
Rustflags ==
    /\ rustflags_result = None
    /\ rustflags_result' = Some(rustflags)
    /\ UNCHANGED <<env_CARGO_ENCODED_RUSTFLAGS, env_RUSTFLAGS>>
    /\ UNCHANGED <<consoleVars, argvVars, options, opsVars, walkVars, pureVars, runVars>>

(***************************************************************************)
(* visit.rs: text.                                                         *)
(***************************************************************************)
RECURSIVE remove_excess_spaces_from(_, _)
\* The loop of remove_excess_spaces: r is the string built so far, s what
\* is left to read. A space after "->" is kept by the first arm (its body is
\* empty and the push follows the match); a space after one of : & < > is
\* dropped; a space before one of : , < > is popped.
remove_excess_spaces_from(r, s) ==
    IF s = <<>> THEN r
    ELSE
        LET c == Head(s)
            rest == Tail(s)
        IN  IF c = SP /\ str_ends_with(r, <<"-", ">">>)
            THEN remove_excess_spaces_from(Append(r, c), rest)
            ELSE IF c = SP
            THEN IF r # <<>> /\ Last(r) \in {":", "&", "<", ">"}
                 THEN remove_excess_spaces_from(r, rest)
                 ELSE remove_excess_spaces_from(Append(r, c), rest)
            ELSE IF c \in {":", ",", "<", ">"} /\ str_ends_with(r, <<SP>>)
            THEN remove_excess_spaces_from(Append(Front(r), c), rest)
            ELSE remove_excess_spaces_from(Append(r, c), rest)

remove_excess_spaces(s) == remove_excess_spaces_from(<<>>, s)

(***************************************************************************)
(* visit.rs: the syntax tree, as syn parses it.                            *)
(*                                                                         *)
(* An identifier is a String. A Path is [leading_colon, segments], each    *)
(* segment [ident, arguments] with arguments an Option of a list of types. *)
(* A Type is one of                                                        *)
(*    [variant |-> "Path", path]        [variant |-> "Tuple", elems]       *)
(*    [variant |-> "Reference", elem]   [variant |-> "Paren", elem]        *)
(*    [variant |-> "Never"]                                                *)
(* and a ReturnType is [variant |-> "Default"] (no arrow) or               *)
(* [variant |-> "Type", ty].                                               *)
(***************************************************************************)
\* The identifiers the code tests for, and those of the trees walked.
Idents ==
    [bool |-> <<"b", "o", "o", "l">>,
     String |-> <<"S", "t", "r", "i", "n", "g">>,
     Result |-> <<"R", "e", "s", "u", "l", "t">>,
     u8 |-> <<"u", "8">>,
     std |-> <<"s", "t", "d">>,
     Default |-> <<"D", "e", "f", "a", "u", "l", "t">>,
     new |-> <<"n", "e", "w">>,
     cfg |-> <<"c", "f", "g">>,
     test |-> <<"t", "e", "s", "t">>,
     not |-> <<"n", "o", "t">>,
     cfg_attr |-> <<"c", "f", "g", "_", "a", "t", "t", "r">>,
     mutants |-> <<"m", "u", "t", "a", "n", "t", "s">>,
     skip |-> <<"s", "k", "i", "p">>,
     inline |-> <<"i", "n", "l", "i", "n", "e">>,
     ff |-> <<"f", "f">>,
     gg |-> <<"g", "g">>,
     hh |-> <<"h", "h">>,
     TT |-> <<"T", "T">>,
     Debug |-> <<"D", "e", "b", "u", "g">>]

PathSegment(ident, arguments) == [ident |-> ident, arguments |-> arguments]

Path(leading_colon, segments) == [leading_colon |-> leading_colon, segments |-> segments]

\* The path of one plain identifier.
IdentPath(ident) == Path(FALSE, <<PathSegment(ident, None)>>)

TypePath(path) == [variant |-> "Path", path |-> path]

TypeTuple(elems) == [variant |-> "Tuple", elems |-> elems]

TypeReference(elem) == [variant |-> "Reference", elem |-> elem]

TypeParen(elem) == [variant |-> "Paren", elem |-> elem]

TypeNever == [variant |-> "Never"]

TypeUnit == TypeTuple(<<>>)

ReturnDefault == [variant |-> "Default"]

ReturnType(ty) == [variant |-> "Type", ty |-> ty]

\* syn::Path::is_ident: no leading colon, one segment, no arguments, and
\* that identifier.
is_ident(path, ident) ==
    /\ ~path.leading_colon
    /\ Len(path.segments) = 1
    /\ path.segments[1].arguments = None
    /\ path.segments[1].ident = ident

\* A plausible slip: any segment named Result, not the last one.
path_is_result_any_segment(path) ==
    \E i \in 1..Len(path.segments) : path.segments[i].ident = Idents.Result

\* path_is_result: the last segment, if any, is named Result.
path_is_result(path) ==
    IF path.segments = <<>> THEN FALSE
    ELSE Last(path.segments).ident = Idents.Result

\* ops_for_return_type, arm by arm.
ops_for_return_type(return_type) ==
    IF return_type.variant = "Default" THEN <<"Unit">>
    ELSE IF return_type.ty.variant = "Path"
    THEN LET path == return_type.ty.path
         IN  IF is_ident(path, Idents.bool) THEN <<"True", "False">>
             ELSE IF is_ident(path, Idents.String) THEN <<"EmptyString", "Xyzzy">>
             ELSE IF path_is_result(path) THEN <<"OkDefault">>
             ELSE <<"Default">>
    ELSE <<"Default">>

RECURSIVE type_tokens(_)
RECURSIVE types_tokens(_)
\* ToTokens of a type, printed: the tokens with a space between them.
type_tokens(ty) ==
    CASE ty.variant = "Path" ->
            LET seg(sg) ==
                    IF sg.arguments = None THEN sg.ident
                    ELSE sg.ident \o <<SP, "<", SP>>
                         \o types_tokens(unwrap(sg.arguments)) \o <<SP, ">">>
                segs == [i \in 1..Len(ty.path.segments) |-> seg(ty.path.segments[i])]
            IN  (IF ty.path.leading_colon THEN <<":", ":", SP>> ELSE <<>>)
                \o join(segs, <<SP, ":", ":", SP>>)
      [] ty.variant = "Tuple" -> <<"(">> \o types_tokens(ty.elems) \o <<")">>
      [] ty.variant = "Reference" -> <<"&", SP>> \o type_tokens(ty.elem)
      [] ty.variant = "Paren" -> <<"(">> \o type_tokens(ty.elem) \o <<")">>
      [] ty.variant = "Never" -> <<"!">>

types_tokens(tys) ==
    join([i \in 1..Len(tys) |-> type_tokens(tys[i])], <<SP, ",", SP>>)

\* type_name_string: the type's token stream as a string.
type_name_string(ty) == type_tokens(ty)

\* return_type_to_string: "" for no arrow, else "-> " and the type with its
\* excess spaces removed.
return_type_to_string(return_type) ==
    IF return_type.variant = "Default" THEN <<>>
    ELSE <<"-", ">", SP>> \o remove_excess_spaces(type_tokens(return_type.ty))

(***************************************************************************)
(* Attributes. A Meta is [path, kind, nested] with kind "Path", "List" or  *)
(* "NameValue"; the nested of a list are metas or [kind |-> "Lit"]. An     *)
(* Attribute is the meta it parses to.                                     *)
(***************************************************************************)
MetaPath(segments) == [path |-> Path(FALSE, [i \in 1..Len(segments) |-> PathSegment(segments[i], None)]),
                       kind |-> "Path", nested |-> <<>>]

MetaList(ident, nested) == [path |-> IdentPath(ident), kind |-> "List", nested |-> nested]

MetaNameValue(ident) == [path |-> IdentPath(ident), kind |-> "NameValue", nested |-> <<>>]

\* attr_is_cfg_test: a cfg list with the plain path `test` among its
\* arguments.
attr_is_cfg_test(attr) ==
    IF ~is_ident(attr.path, Idents.cfg) THEN FALSE
    ELSE IF attr.kind = "List"
    THEN \E i \in 1..Len(attr.nested) :
            /\ attr.nested[i].kind = "Path"
            /\ is_ident(attr.nested[i].path, Idents.test)
    ELSE FALSE

\* attr_is_test.
attr_is_test(attr) == is_ident(attr.path, Idents.test)

\* path_is_mutants_skip: the identifiers of the segments are mutants, skip.
path_is_mutants_skip(path) ==
    [i \in 1..Len(path.segments) |-> path.segments[i].ident] = <<Idents.mutants, Idents.skip>>

RECURSIVE list_is_mutants_skip(_)
\* list_is_mutants_skip: some argument is the path mutants::skip, or a list
\* that holds it.
list_is_mutants_skip(nested) ==
    \E i \in 1..Len(nested) :
        CASE nested[i].kind = "Path" -> path_is_mutants_skip(nested[i].path)
          [] nested[i].kind = "List" -> list_is_mutants_skip(nested[i].nested)
          [] OTHER -> FALSE

\* attr_is_mutants_skip.
attr_is_mutants_skip(attr) ==
    IF path_is_mutants_skip(attr.path) THEN TRUE
    ELSE IF attr.kind = "List" THEN list_is_mutants_skip(attr.nested)
    ELSE FALSE

\* A plausible slip: #[test] forgotten among the excluding attributes.
attrs_excluded_without_test(attrs) ==
    \E i \in 1..Len(attrs) :
        attr_is_cfg_test(attrs[i]) \/ attr_is_mutants_skip(attrs[i])

\* attrs_excluded.
attrs_excluded(attrs) ==
    \E i \in 1..Len(attrs) :
        \/ attr_is_cfg_test(attrs[i])
        \/ attr_is_test(attrs[i])
        \/ attr_is_mutants_skip(attrs[i])

\* block_is_empty.
block_is_empty(stmts) == stmts = <<>>

(***************************************************************************)
(* Tree-relative paths: a path is the sequence of its components, each a   *)
(* String; the empty sequence is the root of the tree.                     *)
(***************************************************************************)
\* Utf8Path::ends_with(name) for a one-component name: the last component
\* is that name, whole.
path_ends_with(path, name) == path # <<>> /\ Last(path) = name

\* Utf8Path::parent.
path_parent(path) == Front(path)

\* The position of the last c in s, or 0.
rfind(s, c) ==
    IF \E i \in 1..Len(s) : s[i] = c
    THEN CHOOSE i \in 1..Len(s) : s[i] = c /\ \A j \in (i + 1)..Len(s) : s[j] # c
    ELSE 0

\* Utf8Path::with_extension(""): the file name loses what follows its last
\* dot, and the dot; a name with no dot, or with its only dot in front,
\* stays.
path_with_extension_empty(path) ==
    IF path = <<>> THEN path
    ELSE LET name == Last(path)
             dot == rfind(name, ".")
         IN  IF dot <= 1 THEN path
             ELSE Append(Front(path), SubSeq(name, 1, dot - 1))

\* Utf8Path::join(s) for a relative s: the components of s, which "/"
\* separates, follow those of the path.
path_join(path, str) == path \o SelectSeq(split(str, "/"), LAMBDA c : c # <<>>)

\* Ident::unraw: the identifier without a leading r#.
unraw(ident) ==
    IF Len(ident) >= 2 /\ SubSeq(ident, 1, 2) = <<"r", "#">>
    THEN SubSeq(ident, 3, Len(ident))
    ELSE ident

(***************************************************************************)
(* visit.rs: the items of a file. A node is one of                         *)
(*   [node |-> "ItemFn", attrs, ident, output, stmts, span]                *)
(*   [node |-> "ImplItemMethod", attrs, ident, output, stmts, span]        *)
(*   [node |-> "ItemImpl", attrs, trait_, self_ty, items]                  *)
(*   [node |-> "ItemMod", attrs, ident, content]    content: Option<items> *)
(*   [node |-> "Other", attrs, children]  a node DiscoveryVisitor does not *)
(*        override (a trait, a block expression, ...): syn's default visit *)
(*        goes through it to its children                                  *)
(*   [node |-> "Leaf"]  a statement or item with no item inside            *)
(* span is the place of the function body's brace, a line number here.     *)
(***************************************************************************)
ItemFn(attrs, ident, output, stmts, span) ==
    [node |-> "ItemFn", attrs |-> attrs, ident |-> ident, output |-> output,
     stmts |-> stmts, span |-> span]

ImplItemMethod(attrs, ident, output, stmts, span) ==
    [node |-> "ImplItemMethod", attrs |-> attrs, ident |-> ident, output |-> output,
     stmts |-> stmts, span |-> span]

ItemImpl(attrs, trait_, self_ty, items) ==
    [node |-> "ItemImpl", attrs |-> attrs, trait_ |-> trait_, self_ty |-> self_ty,
     items |-> items]

ItemMod(attrs, ident, content) ==
    [node |-> "ItemMod", attrs |-> attrs, ident |-> ident, content |-> content]

Other(attrs, children) == [node |-> "Other", attrs |-> attrs, children |-> children]

Leaf == [node |-> "Leaf"]

\* SourceFile: the path and the package; the code is what the tree holds at
\* that path.
SourceFile(path, package) == [tree_relative_path |-> path, package_name |-> package]

\* Mutant::new.
Mutant(source_file, op, function_name, return_type, span) ==
    [source_file |-> source_file, op |-> op, function_name |-> function_name,
     return_type |-> return_type, span |-> span]

\* A DiscoveryVisitor at the start of a file. panicked records a failed
\* assert_eq of in_namespace.
NewVisitor == [mutants |-> <<>>, more_files |-> <<>>, namespace_stack |-> <<>>,
               panicked |-> FALSE]

\* collect_fn_mutants: one mutant per op of the return type, in order.
collect_fn_mutants(v, source_file, return_type, span) ==
    LET full_function_name == join(v.namespace_stack, <<":", ":">>)
        return_type_str == return_type_to_string(return_type)
        ops == ops_for_return_type(return_type)
        new == [i \in 1..Len(ops) |->
                    Mutant(source_file, ops[i], full_function_name,
                           return_type_str, span)]
    IN  [v EXCEPT !.mutants = @ \o new]

\* The mutant: the name is pushed as it is given.
in_namespace_push_raw(v, name) ==
    [v EXCEPT !.namespace_stack = Append(@, name)]

\* in_namespace, before f runs: the name, its excess spaces removed, is
\* pushed on the stack.
in_namespace_push(v, name) ==
    [v EXCEPT !.namespace_stack = Append(@, remove_excess_spaces(name))]

\* in_namespace, after f has run and left the visitor r: the top of the
\* stack is popped and compared with the name pushed.
in_namespace_pop(r, name) ==
    [r EXCEPT !.namespace_stack = Front(@),
              !.panicked = @ \/ Last(r.namespace_stack) # remove_excess_spaces(name)]

\* A plausible slip: the two extensions in the other order.
mod_candidates_mod_first(dir, mod_name) ==
    <<path_join(dir, mod_name \o <<"/">> \o <<"m", "o", "d", ".", "r", "s">>), path_join(dir, mod_name \o <<".", "r", "s">>)>>

\* The two file names visit_item_mod tries for `mod name;`, in order.
mod_candidates(dir, mod_name) ==
    <<path_join(dir, mod_name \o <<".", "r", "s">>), path_join(dir, mod_name \o <<"/">> \o <<"m", "o", "d", ".", "r", "s">>)>>

\* The directory visit_item_mod looks in: the file's own for mod.rs, lib.rs
\* and main.rs, else the file's path without its extension.
mod_dir(my_path) ==
    IF \/ path_ends_with(my_path, <<"m", "o", "d", ".", "r", "s">>)
       \/ path_ends_with(my_path, <<"l", "i", "b", ".", "r", "s">>)
       \/ path_ends_with(my_path, <<"m", "a", "i", "n", ".", "r", "s">>)
    THEN path_parent(my_path)
    ELSE path_with_extension_empty(my_path)

\* The body of visit_item_mod for a `mod name;`: the first candidate that is
\* a file of the tree is pushed on more_files; none is when neither is.
find_external_mod(v, root, source_file, mod_name) ==
    LET cands == mod_candidates(mod_dir(source_file.tree_relative_path), mod_name)
    IN  IF cands[1] \in DOMAIN root
        THEN [v EXCEPT !.more_files = Append(@, cands[1])]
        ELSE IF cands[2] \in DOMAIN root
        THEN [v EXCEPT !.more_files = Append(@, cands[2])]
        ELSE v

RECURSIVE visit_node(_, _, _, _)
RECURSIVE visit_each(_, _, _, _)
RECURSIVE visit_item_fn(_, _, _, _)
RECURSIVE visit_impl_item_method(_, _, _, _)
RECURSIVE visit_item_impl(_, _, _, _)
RECURSIVE visit_item_mod(_, _, _, _)

\* syn's default visit of a list of nodes, in source order.
visit_each(v, root, source_file, nodes) ==
    IF nodes = <<>> THEN v
    ELSE visit_each(visit_node(v, root, source_file, Head(nodes)),
                    root, source_file, Tail(nodes))

\* The dispatch of syn::visit::Visit.
visit_node(v, root, source_file, n) ==
    CASE n.node = "ItemFn" -> visit_item_fn(v, root, source_file, n)
      [] n.node = "ImplItemMethod" -> visit_impl_item_method(v, root, source_file, n)
      [] n.node = "ItemImpl" -> visit_item_impl(v, root, source_file, n)
      [] n.node = "ItemMod" -> visit_item_mod(v, root, source_file, n)
      [] n.node = "Other" -> visit_each(v, root, source_file, n.children)
      [] n.node = "Leaf" -> v

\* visit_item_fn.
visit_item_fn(v, root, source_file, i) ==
    IF attrs_excluded(i.attrs) THEN v
    ELSE IF block_is_empty(i.stmts) THEN v
    ELSE in_namespace_pop(
            visit_each(collect_fn_mutants(in_namespace_push(v, i.ident),
                                          source_file, i.output, i.span),
                       root, source_file, i.stmts),
            i.ident)

\* A plausible slip: a method named `new` is visited as any other.
visit_impl_item_method_any_name(v, root, source_file, i) ==
    IF attrs_excluded(i.attrs) \/ block_is_empty(i.stmts) THEN v
    ELSE in_namespace_pop(
            visit_each(collect_fn_mutants(in_namespace_push(v, i.ident),
                                          source_file, i.output, i.span),
                       root, source_file, i.stmts),
            i.ident)

\* visit_impl_item_method.
visit_impl_item_method(v, root, source_file, i) ==
    IF attrs_excluded(i.attrs) \/ i.ident = Idents.new \/ block_is_empty(i.stmts) THEN v
    ELSE in_namespace_pop(
            visit_each(collect_fn_mutants(in_namespace_push(v, i.ident),
                                          source_file, i.output, i.span),
                       root, source_file, i.stmts),
            i.ident)

\* visit_item_impl.
visit_item_impl(v, root, source_file, i) ==
    IF attrs_excluded(i.attrs) THEN v
    ELSE
        LET type_name == type_name_string(i.self_ty)
        IN  IF is_some(i.trait_)
            THEN LET trait_name == Last(unwrap(i.trait_).segments).ident
                 IN  IF trait_name = Idents.Default THEN v
                     ELSE LET name == <<"<", "i", "m", "p", "l", SP>> \o trait_name
                                         \o <<SP, "f", "o", "r", SP>>
                                         \o remove_excess_spaces(type_name) \o <<">">>
                          IN  in_namespace_pop(
                                  visit_each(in_namespace_push(v, name),
                                             root, source_file, i.items),
                                  name)
            ELSE in_namespace_pop(
                    visit_each(in_namespace_push(v, type_name), root, source_file, i.items),
                    type_name)

\* visit_item_mod.
visit_item_mod(v, root, source_file, node) ==
    LET mod_name == unraw(node.ident)
    IN  IF attrs_excluded(node.attrs) THEN v
        ELSE
            LET v1 == IF node.content = None
                      THEN find_external_mod(v, root, source_file, mod_name)
                      ELSE v
                w == in_namespace_push(v1, mod_name)
            IN  in_namespace_pop(
                    IF node.content = None THEN w
                    ELSE visit_each(w, root, source_file, unwrap(node.content)),
                    mod_name)

\* walk_file: Err when the file does not parse, else the mutants and the
\* files its mod statements name.
walk_file(root, source_file) ==
    LET file == root[source_file.tree_relative_path]
    IN  IF ~file.parses
        THEN [ok |-> FALSE, mutants |-> <<>>, more_files |-> <<>>]
        ELSE LET visitor == visit_each(NewVisitor, root, source_file, file.items)
             IN  [ok |-> TRUE, mutants |-> visitor.mutants,
                  more_files |-> visitor.more_files]

(***************************************************************************)
(* visit.rs: walk_tree.                                                    *)
(*                                                                         *)
(* Options: examine_globset and exclude_globset are Options of a GlobSet,  *)
(* here the set of literal paths it matches; examine_names and             *)
(* exclude_names are Options of a RegexSet, here a list of literal         *)
(* patterns, each matching the strings that contain it.                    *)
(***************************************************************************)
\* GlobSet::is_match.
glob_is_match(globset, path) == path \in globset

\* Whether needle occurs in text.
contains(text, needle) ==
    \E i \in 0..(Len(text) - Len(needle)) :
        SubSeq(text, i + 1, i + Len(needle)) = needle

\* RegexSet::is_match: some pattern of the set matches.
regex_set_is_match(set, text) == \E i \in 1..Len(set) : contains(text, set[i])

\* RegexSet::is_empty: the set holds no pattern.
regex_set_is_empty(set) == Len(set) = 0

\* TreeRelativePathBuf::to_string: the components with slashes between.
tree_relative_slashes(path) == join(path, <<"/">>)

Digits == <<"0", "1", "2", "3", "4", "5", "6", "7", "8", "9">>

RECURSIVE decimal(_)
decimal(n) == IF n < 10 THEN <<Digits[n + 1]>> ELSE Append(decimal(n \div 10), Digits[(n % 10) + 1])

\* Mutant::replacement_text.
replacement_text(op) ==
    CASE op = "Unit" -> <<"(", ")">>
      [] op = "Default" -> <<"D", "e", "f", "a", "u", "l", "t", ":", ":", "d", "e", "f", "a", "u", "l", "t", "(", ")">>
      [] op = "True" -> <<"t", "r", "u", "e">>
      [] op = "False" -> <<"f", "a", "l", "s", "e">>
      [] op = "EmptyString" -> <<"\"", "\"", ".", "i", "n", "t", "o", "(", ")">>
      [] op = "Xyzzy" -> <<"\"", "x", "y", "z", "z", "y", "\"", ".", "i", "n", "t", "o", "(", ")">>
      [] op = "OkDefault" -> <<"O", "k", "(", "D", "e", "f", "a", "u", "l", "t", ":", ":", "d", "e", "f", "a", "u", "l", "t", "(", ")", ")">>

\* Mutant's Display, the m.to_string() the name filters match against:
\* "<path>:<line>: replace <function>[ <return type>] with <replacement>".
mutant_to_string(m) ==
    tree_relative_slashes(m.source_file.tree_relative_path) \o <<":">> \o decimal(m.span)
    \o <<":", SP, "r", "e", "p", "l", "a", "c", "e", SP>> \o m.function_name
    \o (IF m.return_type = <<>> THEN <<>> ELSE <<SP>>) \o m.return_type
    \o <<SP, "w", "i", "t", "h", SP>> \o replacement_text(m.op)

\* A plausible slip: a file reported by an earlier call is passed over, as
\* with a set of the files seen that outlives the call.
passes_globs_once(opts, path) ==
    /\ ~(is_some(opts.examine_globset) /\ ~glob_is_match(unwrap(opts.examine_globset), path))
    /\ ~(is_some(opts.exclude_globset) /\ glob_is_match(unwrap(opts.exclude_globset), path))
    /\ ~(is_some(first_result)
          /\ \E i \in 1..Len(unwrap(first_result).files) :
                unwrap(first_result).files[i].tree_relative_path = path)

\* The two glob tests of walk_tree: FALSE where the loop says `continue`.
passes_globs(opts, path) ==
    /\ ~(is_some(opts.examine_globset) /\ ~glob_is_match(unwrap(opts.examine_globset), path))
    /\ ~(is_some(opts.exclude_globset) /\ glob_is_match(unwrap(opts.exclude_globset), path))

\* A plausible slip: the second retain is the else of the first, so that
\* exclude_names is looked at only when examine_names filters nothing.
retain_names_either(opts, file_mutants) ==
    IF is_some(opts.examine_names) /\ ~regex_set_is_empty(unwrap(opts.examine_names))
    THEN SelectSeq(file_mutants,
            LAMBDA m : regex_set_is_match(unwrap(opts.examine_names), mutant_to_string(m)))
    ELSE IF is_some(opts.exclude_names) /\ ~regex_set_is_empty(unwrap(opts.exclude_names))
    THEN SelectSeq(file_mutants,
            LAMBDA m : ~regex_set_is_match(unwrap(opts.exclude_names), mutant_to_string(m)))
    ELSE file_mutants

\* The two retain calls of walk_tree.
retain_names(opts, file_mutants) ==
    LET examined ==
            IF is_some(opts.examine_names) /\ ~regex_set_is_empty(unwrap(opts.examine_names))
            THEN SelectSeq(file_mutants,
                    LAMBDA m : regex_set_is_match(unwrap(opts.examine_names), mutant_to_string(m)))
            ELSE file_mutants
    IN  IF is_some(opts.exclude_names) /\ ~regex_set_is_empty(unwrap(opts.exclude_names))
        THEN SelectSeq(examined,
                LAMBDA m : ~regex_set_is_match(unwrap(opts.exclude_names), mutant_to_string(m)))
        ELSE examined

\* A plausible slip: the loop says `continue` before it pushes the files
\* found, so a file that fails the globs adds none.
new_source_files_after_globs(more_files, package) ==
    IF passes_globs(options, unwrap(popped).tree_relative_path)
    THEN [i \in 1..Len(more_files) |-> SourceFile(more_files[i], package)]
    ELSE <<>>

\* The files a walked file adds to the queue: one SourceFile per path of
\* more_files, of the package of the file that named it.
new_source_files(more_files, package) ==
    [i \in 1..Len(more_files) |-> SourceFile(more_files[i], package)]

(***************************************************************************)
(* The source trees the model walks.                                       *)
(***************************************************************************)
\* The tree-relative paths of the files of the trees walked.
Paths ==
    [lib |-> <<<<"s", "r", "c">>, <<"l", "i", "b", ".", "r", "s">>>>,
     main |-> <<<<"s", "r", "c">>, <<"m", "a", "i", "n", ".", "r", "s">>>>,
     m |-> <<<<"s", "r", "c">>, <<"m">> \o <<".", "r", "s">>>>,
     a |-> <<<<"s", "r", "c">>, <<"a">> \o <<".", "r", "s">>>>,
     a_mod |-> <<<<"s", "r", "c">>, <<"a">>, <<"m", "o", "d", ".", "r", "s">>>>,
     a_b |-> <<<<"s", "r", "c">>, <<"a">>, <<"b">> \o <<".", "r", "s">>>>,
     a_b_mod |-> <<<<"s", "r", "c">>, <<"a">>, <<"b">>, <<"m", "o", "d", ".", "r", "s">>>>]

\* Return types of the functions of the trees walked; Result is
\* Result<(), ()> and std_bool is std::bool.
Types ==
    [bool |-> TypePath(IdentPath(Idents.bool)),
     String |-> TypePath(IdentPath(Idents.String)),
     u8 |-> TypePath(IdentPath(Idents.u8)),
     Result |-> TypePath(Path(FALSE, <<PathSegment(Idents.Result, Some(<<TypeUnit, TypeUnit>>))>>)),
     std_bool |-> TypePath(Path(FALSE, <<PathSegment(Idents.std, None), PathSegment(Idents.bool, None)>>))]

File(items) == [reads |-> TRUE, parses |-> TRUE, items |-> items]

Unparseable == [reads |-> TRUE, parses |-> FALSE, items |-> <<>>]

\* A file that is there and cannot be read: SourceFile::new fails on it.
Unreadable == [reads |-> FALSE, parses |-> FALSE, items |-> <<>>]

\* fn ident() <output> { statement }
Fn(ident, output, span) == ItemFn(<<>>, ident, output, <<Leaf>>, span)

\* mod ident;
ModDecl(ident) == ItemMod(<<>>, ident, None)

Tree(root_files, files) == [root_files |-> root_files, files |-> files]

RECURSIVE cfg_attr_skip(_)
\* #[cfg_attr(test, mutants::skip)], nested in d - 1 more cfg_attr lists.
cfg_attr_skip(d) ==
    IF d <= 1
    THEN MetaList(Idents.cfg_attr, <<MetaPath(<<Idents.test>>), MetaPath(<<Idents.mutants, Idents.skip>>)>>)
    ELSE MetaList(Idents.cfg_attr, <<MetaPath(<<Idents.test>>), cfg_attr_skip(d - 1)>>)

\* The attribute lists an item of the model's trees may carry.
AttrLists ==
    {<<>>,
     <<MetaList(Idents.cfg, <<MetaPath(<<Idents.test>>)>>)>>,                              \* #[cfg(test)]
     <<MetaPath(<<Idents.test>>)>>,                                                    \* #[test]
     <<MetaPath(<<Idents.mutants, Idents.skip>>)>>,                                        \* #[mutants::skip]
     <<MetaPath(<<Idents.inline>>)>>,                                                  \* #[inline]
     <<MetaPath(<<Idents.inline>>), MetaPath(<<Idents.test>>)>>,                           \* #[inline] #[test]
     <<MetaList(Idents.cfg, <<MetaList(Idents.not, <<MetaPath(<<Idents.test>>)>>)>>)>>,        \* #[cfg(not(test))]
     <<MetaList(Idents.cfg, <<MetaNameValue(Idents.ff)>>)>>,                               \* #[cfg(ff = "..")]
     <<MetaList(Idents.cfg_attr, <<MetaPath(<<Idents.test>>), MetaPath(<<Idents.inline>>)>>)>> \* #[cfg_attr(test, inline)]
    } \cup {<<cfg_attr_skip(d)>> : d \in 1..MaxCfgAttrDepth}

\* The body of the outer function of an AttrTree: a statement, a nested
\* function and a `mod m;`.
NestedBody == <<Leaf, Fn(Idents.gg, ReturnDefault, 2), ModDecl(<<"m">>)>>

AttrKinds == {"fn", "method", "impl", "mod", "extmod", "other"}

\* src/lib.rs holds one item of the kind, carrying the attributes, around a
\* function with a nested function and a `mod m;`; src/m.rs holds a function.
AttrTree(kind, attrs) ==
    LET items ==
            CASE kind = "fn" -> <<ItemFn(attrs, Idents.ff, ReturnType(Types.bool), NestedBody, 1)>>
              [] kind = "method" ->
                    <<ItemImpl(<<>>, None, Types.u8,
                        <<ImplItemMethod(attrs, Idents.ff, ReturnType(Types.bool), NestedBody, 1)>>)>>
              [] kind = "impl" ->
                    <<ItemImpl(attrs, Some(IdentPath(Idents.Debug)), Types.u8,
                        <<ImplItemMethod(<<>>, Idents.ff, ReturnType(Types.bool), NestedBody, 1)>>)>>
              [] kind = "mod" ->
                    <<ItemMod(attrs, <<"t">>,
                        Some(<<ItemFn(<<>>, Idents.ff, ReturnType(Types.bool), NestedBody, 1)>>))>>
              [] kind = "extmod" ->
                    <<ItemMod(attrs, <<"m">>, None), Fn(Idents.ff, ReturnType(Types.bool), 1)>>
              [] kind = "other" ->
                    <<Other(attrs, <<ItemFn(<<>>, Idents.ff, ReturnType(Types.bool), NestedBody, 1)>>)>>
    IN  Tree(<<SourceFile(Paths.lib, "pkg")>>,
             (Paths.lib :> File(items)) @@ (Paths.m :> File(<<Fn(Idents.hh, ReturnType(Types.String), 1)>>)))

\* The return types of the functions of the model's trees.
TreeReturnTypes ==
    {ReturnDefault, ReturnType(TypeUnit), ReturnType(Types.bool), ReturnType(Types.String),
     ReturnType(Types.Result), ReturnType(Types.u8), ReturnType(Types.std_bool),
     ReturnType(TypeReference(Types.bool))}

\* src/lib.rs holds one function, or one method of `impl u8`, with the
\* name and the return type, its body empty or a statement and a nested
\* function.
FnTree(kind, ident, output, empty) ==
    LET stmts == IF empty THEN <<>> ELSE <<Leaf, Fn(Idents.gg, ReturnDefault, 2)>>
        items ==
            IF kind = "fn"
            THEN <<ItemFn(<<>>, ident, output, stmts, 1)>>
            ELSE <<ItemImpl(<<>>, None, Types.u8,
                    <<ImplItemMethod(<<>>, ident, output, stmts, 1)>>)>>
    IN  Tree(<<SourceFile(Paths.lib, "pkg")>>, Paths.lib :> File(items))

\* src/lib.rs holds `impl <trait> for <type>`, or `impl <type>`, with a
\* method that holds a nested function.
ImplTree(trait_, self_ty) ==
    Tree(<<SourceFile(Paths.lib, "pkg")>>,
         Paths.lib :> File(<<ItemImpl(<<>>, trait_, self_ty,
                            <<ImplItemMethod(<<>>, Idents.ff, ReturnType(Types.u8),
                                             <<Leaf, Fn(Idents.gg, ReturnDefault, 2)>>, 1)>>)>>))

\* Trees whose files name other files with `mod`.
ModTrees ==
    {\* lib.rs and main.rs, of two packages, both say `mod a;`
     Tree(<<SourceFile(Paths.lib, "pkg"), SourceFile(Paths.main, "bin")>>,
          (Paths.lib :> File(<<Fn(Idents.ff, ReturnType(Types.bool), 1), ModDecl(<<"a">>)>>))
          @@ (Paths.main :> File(<<ModDecl(<<"a">>)>>))
          @@ (Paths.a :> File(<<Fn(Idents.gg, ReturnDefault, 1)>>))),
     \* a.rs is a root file and lib.rs says `mod a;`
     Tree(<<SourceFile(Paths.a, "pkg"), SourceFile(Paths.lib, "pkg")>>,
          (Paths.lib :> File(<<ModDecl(<<"a">>)>>))
          @@ (Paths.a :> File(<<Fn(Idents.gg, ReturnDefault, 1)>>))),
     \* lib.rs says `mod lib;`
     Tree(<<SourceFile(Paths.lib, "pkg")>>,
          Paths.lib :> File(<<ModDecl(<<"l", "i", "b">>), Fn(Idents.ff, ReturnType(Types.bool), 2)>>)),
     \* lib.rs says `mod main;` and main.rs says `mod lib;`
     Tree(<<SourceFile(Paths.lib, "pkg")>>,
          (Paths.lib :> File(<<ModDecl(<<"m", "a", "i", "n">>)>>))
          @@ (Paths.main :> File(<<ModDecl(<<"l", "i", "b">>), Fn(Idents.gg, ReturnDefault, 2)>>))),
     \* lib.rs -> a.rs (a/mod.rs is there too) -> a/b.rs
     Tree(<<SourceFile(Paths.lib, "pkg")>>,
          (Paths.lib :> File(<<ModDecl(<<"a">>), Fn(Idents.ff, ReturnType(Types.u8), 2)>>))
          @@ (Paths.a :> File(<<Fn(Idents.gg, ReturnDefault, 1), ModDecl(<<"r", "#", "b">>)>>))
          @@ (Paths.a_mod :> File(<<Fn(Idents.hh, ReturnDefault, 1)>>))
          @@ (Paths.a_b :> File(<<Fn(Idents.hh, ReturnType(Types.bool), 1)>>))),
     \* lib.rs -> a/mod.rs -> a/b/mod.rs
     Tree(<<SourceFile(Paths.lib, "pkg")>>,
          (Paths.lib :> File(<<ModDecl(<<"a">>)>>))
          @@ (Paths.a_mod :> File(<<ModDecl(<<"b">>), Fn(Idents.gg, ReturnDefault, 2)>>))
          @@ (Paths.a_b_mod :> File(<<Fn(Idents.hh, ReturnType(Types.bool), 1)>>))),
     \* lib.rs says `mod a;` and there is no such file
     Tree(<<SourceFile(Paths.lib, "pkg")>>,
          Paths.lib :> File(<<ModDecl(<<"a">>), Fn(Idents.ff, ReturnType(Types.bool), 2)>>)),
     \* lib.rs -> a.rs, which does not parse
     Tree(<<SourceFile(Paths.lib, "pkg")>>,
          (Paths.lib :> File(<<Fn(Idents.ff, ReturnType(Types.bool), 1), ModDecl(<<"a">>)>>))
          @@ (Paths.a :> Unparseable)),
     \* a.rs and lib.rs are root files, each with a function, and lib.rs
     \* says `mod a;`
     Tree(<<SourceFile(Paths.a, "pkg"), SourceFile(Paths.lib, "pkg")>>,
          (Paths.lib :> File(<<Fn(Idents.ff, ReturnType(Types.bool), 1), ModDecl(<<"a">>)>>))
          @@ (Paths.a :> File(<<Fn(Idents.gg, ReturnDefault, 1),
                                Fn(Idents.hh, ReturnType(Types.u8), 2)>>))),
     \* lib.rs -> a.rs, which cannot be read
     Tree(<<SourceFile(Paths.lib, "pkg")>>,
          (Paths.lib :> File(<<Fn(Idents.ff, ReturnType(Types.bool), 1), ModDecl(<<"a">>)>>))
          @@ (Paths.a :> Unreadable))}

SourceTrees ==
    {AttrTree(k, a) : k \in AttrKinds, a \in AttrLists}
    \cup {FnTree(k, i, o, e) : k \in {"fn", "method"}, i \in {Idents.ff, Idents.new},
                               o \in TreeReturnTypes, e \in BOOLEAN}
    \cup {ImplTree(t, ty) : t \in {None, Some(IdentPath(Idents.Default)),
                                   Some(IdentPath(Idents.Debug)),
                                   Some(Path(FALSE, <<PathSegment(Idents.std, None),
                                                      PathSegment(Idents.Default, None)>>))},
                             ty \in {Types.u8, Types.Result, TypeReference(Types.bool)}}
    \cup ModTrees

\* The options of a walk. A globset of the model matches the literal paths
\* it holds; each pattern of a regex set matches the names holding it.
WalkOptions ==
    LET GlobSets == {{}, {Paths.lib}, {Paths.a, Paths.m, Paths.main}}
        RegexSets == {<<>>, <<Idents.ff>>, <<Idents.gg, Idents.bool>>}
    IN  [examine_globset : {None} \cup {Some(g) : g \in GlobSets \ {{}}},
         exclude_globset : {None} \cup {Some(g) : g \in GlobSets},
         examine_names : {None} \cup {Some(r) : r \in RegexSets},
         exclude_names : {None} \cup {Some(r) : r \in RegexSets \ {<<>>}},
         additional_cargo_args : {<<>>},
         additional_cargo_test_args : {<<>>}]

(***************************************************************************)
(* visit.rs: collect_fn_mutants on one function, for every return type.    *)
(***************************************************************************)
\* The path types: with or without a leading ::, of up to MaxSegments
\* segments, each with or without generic arguments.
PathTypes ==
    LET TypeIdents == {Idents.bool, Idents.String, Idents.Result, Idents.u8}
        PathSegments == [ident : TypeIdents,
                         arguments : {None, Some(<<TypeUnit, TypeUnit>>)}]
    IN  {TypePath(Path(c, sg)) :
            c \in BOOLEAN,
            sg \in UNION {[1..k -> PathSegments] : k \in 1..MaxSegments}}

ReturnTypes ==
    {ReturnDefault}
    \cup {ReturnType(t) : t \in PathTypes}
    \cup {ReturnType(t) : t \in {TypeUnit, TypeTuple(<<Types.bool, Types.bool>>), TypeNever,
                                 TypeReference(Types.bool), TypeReference(Types.String),
                                 TypeParen(Types.bool), TypeParen(Types.Result)}}

OpsInit ==
    /\ sig_output \in ReturnTypes
    /\ collected = None

OpsIdle ==
    /\ sig_output = ReturnDefault
    /\ collected = None

\* The visitor, inside function ff of src/lib.rs, collects its mutants.
CollectFnMutants ==
    /\ collected = None
    /\ collected' =
          Some(collect_fn_mutants([NewVisitor EXCEPT !.namespace_stack = <<Idents.ff>>],
                                  SourceFile(Paths.lib, "pkg"), sig_output, 1).mutants)
    /\ UNCHANGED sig_output
    /\ UNCHANGED <<consoleVars, argvVars, flagsVars, options, walkVars, pureVars, runVars>>

(***************************************************************************)
(* visit.rs: walk_tree as a state machine. A turn of its loop is two steps: *)
(* the head of the queue is popped and the interrupt flag looked at, then  *)
(* the file is walked. Returning is a step of its own.                     *)
(***************************************************************************)
WalkInit ==
    /\ source_tree \in SourceTrees
    /\ options \in WalkOptions
    /\ file_queue = source_tree.root_files
    /\ popped = None
    /\ mutants = <<>>
    /\ seen_files = <<>>
    /\ walk_result = None
    /\ interrupted = FALSE
    /\ times_dequeued = [p \in DOMAIN source_tree.files |-> 0]
    /\ first_result = None

WalkIdle ==
    /\ source_tree = Tree(<<>>, <<>>)
    /\ file_queue = <<>>
    /\ popped = None
    /\ mutants = <<>>
    /\ seen_files = <<>>
    /\ walk_result = None
    /\ times_dequeued = <<>>
    /\ first_result = None

Walking == walk_result = None

\* A plausible slip: the loop is left with `break` and what was collected
\* so far is returned.
WalkFails_break(error) ==
    /\ walk_result' = Some([ok |-> TRUE, mutants |-> mutants, files |-> seen_files])
    /\ file_queue' = <<>>
    /\ popped' = None
    /\ mutants' = <<>>
    /\ seen_files' = <<>>

\* walk_tree returns Err: its locals are dropped.
WalkFails(error) ==
    /\ walk_result' = Some([ok |-> FALSE, error |-> error])
    /\ file_queue' = <<>>
    /\ popped' = None
    /\ mutants' = <<>>
    /\ seen_files' = <<>>

\* The head of the loop: `while let Some(source_file) = file_queue.pop_front()`
\* and then `check_interrupted()?`.
PopFront ==
    /\ Walking
    /\ popped = None
    /\ file_queue # <<>>
    /\ Len(seen_files) < MaxSeen
    /\ Len(mutants) < MaxMutants
    /\ times_dequeued' =
          [times_dequeued EXCEPT ![Head(file_queue).tree_relative_path] =
                                     IF @ < 2 THEN @ + 1 ELSE @]
    /\ IF interrupted
       THEN WalkFails("Interrupted")
       ELSE /\ popped' = Some(Head(file_queue))
            /\ file_queue' = Tail(file_queue)
            /\ UNCHANGED <<mutants, seen_files, walk_result>>
    /\ UNCHANGED <<source_tree, options, interrupted, first_result>>
    /\ UNCHANGED <<consoleVars, argvVars, flagsVars, opsVars, pureVars, runVars>>

\* The rest of the body of the loop, on the file popped: it is walked, the
\* files it names are read and pushed, and unless its path fails the globs its
\* mutants, those the name filters retain, and the file itself are kept.
WalkFile ==
    /\ Walking
    /\ popped # None
    /\ LET source_file == unwrap(popped)
           path == source_file.tree_relative_path
           walked == walk_file(source_tree.files, source_file)
       IN  IF ~walked.ok
           THEN WalkFails("failed to parse")
           ELSE IF \E k \in 1..Len(walked.more_files) :
                        ~source_tree.files[walked.more_files[k]].reads
           THEN WalkFails("failed to read")
           ELSE /\ file_queue' = file_queue
                       \o new_source_files(walked.more_files, source_file.package_name)
                /\ popped' = None
                /\ walk_result' = walk_result
                /\ IF passes_globs(options, path)
                   THEN /\ mutants' = mutants \o retain_names(options, walked.mutants)
                        /\ seen_files' = Append(seen_files, source_file)
                   ELSE UNCHANGED <<mutants, seen_files>>
    /\ UNCHANGED <<source_tree, options, interrupted, times_dequeued, first_result>>
    /\ UNCHANGED <<consoleVars, argvVars, flagsVars, opsVars, pureVars, runVars>>

\* pop_front gives None: walk_tree returns Ok((mutants, seen_files)).
WalkReturn ==
    /\ Walking
    /\ popped = None
    /\ file_queue = <<>>
    /\ walk_result' = Some([ok |-> TRUE, mutants |-> mutants, files |-> seen_files])
    /\ mutants' = <<>>
    /\ seen_files' = <<>>
    /\ UNCHANGED <<source_tree, options, file_queue, popped, interrupted, times_dequeued,
                   first_result>>
    /\ UNCHANGED <<consoleVars, argvVars, flagsVars, opsVars, pureVars, runVars>>

\* discover_mutants is called once more, on the same tree with the same
\* options: what the first call returned is kept to compare.
WalkAgain ==
    /\ is_some(walk_result)
    /\ unwrap(walk_result).ok
    /\ first_result = None
    /\ first_result' = walk_result
    /\ walk_result' = None
    /\ file_queue' = source_tree.root_files
    /\ popped' = None
    /\ mutants' = <<>>
    /\ seen_files' = <<>>
    /\ times_dequeued' = [p \in DOMAIN source_tree.files |-> 0]
    /\ UNCHANGED <<source_tree, options, interrupted>>
    /\ UNCHANGED <<consoleVars, argvVars, flagsVars, opsVars, pureVars, runVars>>

\* The signal handler sets the interrupt flag, at any moment of the walk.
Interrupt ==
    /\ Walking
    /\ ~interrupted
    /\ interrupted' = TRUE
    /\ UNCHANGED <<source_tree, options, file_queue, popped, mutants, seen_files,
                   walk_result, times_dequeued, first_result>>
    /\ UNCHANGED <<consoleVars, argvVars, flagsVars, opsVars, pureVars, runVars>>

(***************************************************************************)
(* cargo.rs: should_mutate_target.                                         *)
(***************************************************************************)
MaxKinds == 2

\* The mutant: `bin` is looked for as a suffix too.
should_mutate_target_bin_suffix(kind) ==
    \E i \in 1..Len(kind) :
        \/ str_ends_with(kind[i], <<"l", "i", "b">>)
        \/ str_ends_with(kind[i], <<"b", "i", "n">>)

\* target.kind.iter().any(|k| k.ends_with("lib") || k == "bin")
should_mutate_target(kind) ==
    \E i \in 1..Len(kind) :
        \/ str_ends_with(kind[i], <<"l", "i", "b">>)
        \/ kind[i] = <<"b", "i", "n">>

PureIdle ==
    /\ target_kind = <<>>
    /\ mutate_target = None
    /\ text_in = <<>>
    /\ text_out = None

\* One call of should_mutate_target, from direct_package_sources.
ShouldMutateTarget ==
    /\ mutate_target = None
    /\ mutate_target' = Some(should_mutate_target(target_kind))
    /\ UNCHANGED <<target_kind, text_in, text_out>>
    /\ UNCHANGED <<consoleVars, argvVars, flagsVars, options, opsVars, walkVars, runVars>>

(***************************************************************************)
(* visit.rs: remove_excess_spaces, called on its own.                      *)
(***************************************************************************)
MaxTextLen == 4

\* One call of remove_excess_spaces.
RemoveExcessSpaces ==
    /\ text_out = None
    /\ text_out' = Some(remove_excess_spaces(text_in))
    /\ UNCHANGED <<target_kind, mutate_target, text_in>>
    /\ UNCHANGED <<consoleVars, argvVars, flagsVars, options, opsVars, walkVars, runVars>>

(***************************************************************************)
(* cargo.rs: run_cargo.                                                    *)
(***************************************************************************)
RunIdle ==
    /\ pc = "done"
    /\ child = "none"
    /\ exit_status = None
    /\ timeout = 0
    /\ elapsed = 0
    /\ ticks = 0
    /\ sleeps = 0
    /\ process_status = None
    /\ run_result = None

MaxTimeout == 2

\* check_interrupted(): Err(Interrupted) when the flag is set.
check_interrupted(flag) ==
    IF flag THEN [ok |-> FALSE, error |-> "Interrupted"] ELSE [ok |-> TRUE]

\* Process::poll, on a child in state c that exited, if it has, with es;
\* el is the time since its start, to the timeout. It gives the status of a
\* child that has exited; past the timeout it terminates the child and
\* gives Timeout; with the interrupt flag set it terminates the child and
\* fails; otherwise it gives None.
poll(c, es, el, to, flag) ==
    IF c = "exited"
    THEN [result |-> [ok |-> TRUE,
                      value |-> Some(IF es = Some("success") THEN "Success" ELSE "Failure")],
          child |-> c]
    ELSE IF el > to
    THEN [result |-> [ok |-> TRUE, value |-> Some("Timeout")], child |-> "terminated"]
    ELSE IF ~check_interrupted(flag).ok
    THEN [result |-> check_interrupted(flag), child |-> "terminated"]
    ELSE [result |-> [ok |-> TRUE, value |-> None], child |-> c]

\* A plausible slip: the tick comes before the result of poll is looked at.
loop_body_tick_always(polled, st) ==
    IF ~polled.ok
    THEN [st EXCEPT !.pc = "done", !.run_result = Some(polled)]
    ELSE IF is_some(polled.value)
    THEN [st EXCEPT !.pc = "finish", !.process_status = polled.value, !.ticks = @ + 1]
    ELSE [st EXCEPT !.ticks = @ + 1, !.sleeps = @ + 1, !.elapsed = @ + 1]

\* One turn of run_cargo's loop, given what child.poll() returned: `?`
\* returns its error; a status breaks the loop; else there is one tick and
\* one sleep of WAIT_POLL_INTERVAL, the unit of time here.
loop_body(polled, st) ==
    IF ~polled.ok
    THEN [st EXCEPT !.pc = "done", !.run_result = Some(polled)]
    ELSE IF is_some(polled.value)
    THEN [st EXCEPT !.pc = "finish", !.process_status = polled.value]
    ELSE [st EXCEPT !.ticks = @ + 1, !.sleeps = @ + 1, !.elapsed = @ + 1]

\* A plausible slip: the status is returned with no look at the flag.
run_cargo_return_unchecked(status, flag) == [ok |-> TRUE, value |-> status]

\* The end of run_cargo: `check_interrupted()?; Ok(process_status)`.
run_cargo_return(status, flag) ==
    IF ~check_interrupted(flag).ok THEN check_interrupted(flag)
    ELSE [ok |-> TRUE, value |-> status]

\* run_cargo is called, with a timeout, the flag set or not.
RunInit ==
    /\ pc = "start"
    /\ child = "none"
    /\ exit_status = None
    /\ timeout \in 0..MaxTimeout
    /\ elapsed = 0
    /\ ticks = 0
    /\ sleeps = 0
    /\ process_status = None
    /\ run_result = None
    /\ interrupted \in BOOLEAN

\* Process::start(..)?: the child runs.
ProcessStart ==
    /\ pc = "start"
    /\ pc' = "loop"
    /\ child' = "running"
    /\ UNCHANGED <<exit_status, timeout, elapsed, ticks, sleeps, process_status, run_result>>
    /\ UNCHANGED <<consoleVars, argvVars, flagsVars, options, opsVars, walkVars, pureVars>>

\* One turn of the loop: child.poll() and what follows it.
Poll ==
    /\ pc = "loop"
    /\ LET p == poll(child, exit_status, elapsed, timeout, interrupted)
           st == loop_body(p.result,
                           [pc |-> pc, run_result |-> run_result,
                            process_status |-> process_status,
                            ticks |-> ticks, sleeps |-> sleeps, elapsed |-> elapsed])
       IN  /\ child' = p.child
           /\ pc' = st.pc
           /\ run_result' = st.run_result
           /\ process_status' = st.process_status
           /\ ticks' = st.ticks
           /\ sleeps' = st.sleeps
           /\ elapsed' = st.elapsed
    /\ UNCHANGED <<exit_status, timeout>>
    /\ UNCHANGED <<consoleVars, argvVars, flagsVars, options, opsVars, walkVars, pureVars>>

\* After the loop: the message is logged, the flag is looked at and
\* run_cargo returns.
Finish ==
    /\ pc = "finish"
    /\ pc' = "done"
    /\ run_result' = Some(run_cargo_return(unwrap(process_status), interrupted))
    /\ UNCHANGED <<child, exit_status, timeout, elapsed, ticks, sleeps, process_status>>
    /\ UNCHANGED <<consoleVars, argvVars, flagsVars, options, opsVars, walkVars, pureVars>>

\* The child exits of itself, well or not.
ChildExits ==
    /\ child = "running"
    /\ child' = "exited"
    /\ \E code \in {"success", "nonzero", "signal"} : exit_status' = Some(code)
    /\ UNCHANGED <<pc, timeout, elapsed, ticks, sleeps, process_status, run_result>>
    /\ UNCHANGED <<consoleVars, argvVars, flagsVars, options, opsVars, walkVars, pureVars>>

\* The signal handler sets the interrupt flag while run_cargo runs.
Signal ==
    /\ pc # "done"
    /\ ~interrupted
    /\ interrupted' = TRUE
    /\ UNCHANGED <<source_tree, options, file_queue, popped, mutants, seen_files,
                   walk_result, times_dequeued, first_result>>
    /\ UNCHANGED <<consoleVars, argvVars, flagsVars, opsVars, pureVars, runVars>>

(***************************************************************************)
(* Specifications: one per component.                                      *)
(***************************************************************************)
InitOutcome ==
    /\ ConsoleInit /\ ArgvIdle /\ FlagsIdle /\ OpsIdle /\ WalkIdle /\ PureIdle /\ RunIdle
    /\ interrupted = FALSE
    /\ options = DefaultOptions

SpecOutcome == InitOutcome /\ [][Activity_outcome]_vars

InitArgv ==
    /\ ArgvInit /\ ConsoleIdle /\ FlagsIdle /\ OpsIdle /\ WalkIdle /\ PureIdle /\ RunIdle
    /\ interrupted = FALSE

SpecArgv == InitArgv /\ [][ArgvNext]_vars

InitFlags ==
    /\ FlagsInit /\ ConsoleIdle /\ ArgvIdle /\ OpsIdle /\ WalkIdle /\ PureIdle /\ RunIdle
    /\ interrupted = FALSE
    /\ options = DefaultOptions

SpecFlags == InitFlags /\ [][Rustflags]_vars

InitOps ==
    /\ OpsInit /\ ConsoleIdle /\ ArgvIdle /\ FlagsIdle /\ WalkIdle /\ PureIdle /\ RunIdle
    /\ interrupted = FALSE
    /\ options = DefaultOptions

SpecOps == InitOps /\ [][CollectFnMutants]_vars

\* Discovery: walk_tree over a source tree.
Init == WalkInit /\ ConsoleIdle /\ ArgvIdle /\ FlagsIdle /\ OpsIdle /\ PureIdle /\ RunIdle

Next == PopFront \/ WalkFile \/ WalkReturn \/ Interrupt \/ WalkAgain

Spec == Init /\ [][Next]_vars

\* Discovery over the trees whose files name one another with `mod`.
InitMods ==
    /\ Init
    /\ source_tree \in ModTrees
    /\ options.examine_names = None
    /\ options.exclude_names = None

\* walk_tree runs on: its loop is never suspended for ever.
FairSpec == InitMods /\ [][Next]_vars /\ WF_vars(PopFront \/ WalkFile \/ WalkReturn)

\* One call of run_cargo, with a child that exits when it will, or never.
InitRun ==
    /\ RunInit
    /\ ConsoleIdle /\ ArgvIdle /\ FlagsIdle /\ OpsIdle /\ WalkIdle /\ PureIdle
    /\ options = DefaultOptions

NextRun == ProcessStart \/ Poll \/ Finish \/ ChildExits \/ Signal

SpecRun == InitRun /\ [][NextRun]_vars

\* run_cargo runs on: its thread is never suspended for ever.
FairRun == InitRun /\ [][NextRun]_vars /\ WF_vars(ProcessStart \/ Poll \/ Finish)

\* should_mutate_target over the kind lists of up to MaxKinds kinds.
InitTargets ==
    /\ LET \* The kinds cargo metadata reports, and two that are near misses.
           TargetKinds ==
               {<<"l", "i", "b">>, <<"r", "l", "i", "b">>, <<"c", "d", "y", "l", "i", "b">>,
                <<"b", "i", "n">>, <<"t", "e", "s", "t">>, <<"b", "e", "n", "c", "h">>,
                <<"e", "x", "a", "m", "p", "l", "e">>,
                <<"c", "u", "s", "t", "o", "m", "-", "b", "u", "i", "l", "d">>,
                <<"p", "r", "o", "c", "-", "m", "a", "c", "r", "o">>,
                <<"x", "b", "i", "n">>, <<"l", "i", "b", "s">>}
       IN  target_kind \in SeqUpTo(TargetKinds, MaxKinds)
    /\ mutate_target = None
    /\ text_in = <<>>
    /\ text_out = None
    /\ ConsoleIdle /\ ArgvIdle /\ FlagsIdle /\ OpsIdle /\ WalkIdle /\ RunIdle
    /\ options = DefaultOptions
    /\ interrupted = FALSE

SpecTargets == InitTargets /\ [][ShouldMutateTarget]_vars

\* remove_excess_spaces over the strings of up to MaxTextLen characters.
InitSpaces ==
    /\ text_in \in SeqUpTo({SP, "a", "-", ">", ":", "&", ","}, MaxTextLen)
    /\ text_out = None
    /\ target_kind = <<>>
    /\ mutate_target = None
    /\ ConsoleIdle /\ ArgvIdle /\ FlagsIdle /\ OpsIdle /\ WalkIdle /\ RunIdle
    /\ options = DefaultOptions
    /\ interrupted = FALSE

SpecSpaces == InitSpaces /\ [][RemoveExcessSpaces]_vars

(***************************************************************************)
(* C1: every printed status carries the label the table gives for its      *)
(* (scenario, phase, cargo_result), and every combination has a label.     *)
(***************************************************************************)
Labels ==
    {"ok", "FAILED", "TIMEOUT", "caught", "NOT CAUGHT", "build ok", "check ok",
     "build failed", "check failed"}

\* The table of the claim, row by row, as a set of (scenario, phase, result, label).
OutcomeTable ==
    ({"SourceTree", "Baseline"} \X Phases \X {"Success"} \X {"ok"})
    \cup ({"SourceTree", "Baseline"} \X Phases \X {"Failure"} \X {"FAILED"})
    \cup ({"SourceTree", "Baseline"} \X Phases \X {"Timeout"} \X {"TIMEOUT"})
    \cup {<<"Mutant", "Test", "Failure", "caught">>,
          <<"Mutant", "Test", "Success", "NOT CAUGHT">>,
          <<"Mutant", "Build", "Success", "build ok">>,
          <<"Mutant", "Check", "Success", "check ok">>,
          <<"Mutant", "Build", "Failure", "build failed">>,
          <<"Mutant", "Check", "Failure", "check failed">>}
    \cup ({"Mutant"} \X Phases \X {"Timeout"} \X {"TIMEOUT"})

C1_StyleOutcomeTable ==
    /\ Len(stdout) = Len(reported)
    /\ \A i \in 1..Len(stdout) :
         /\ stdout[i].text \in Labels
         /\ <<reported[i].scenario, reported[i].phase, reported[i].cargo_result,
              stdout[i].text>> \in OutcomeTable

\* A caught mutant and a baseline that timed out have both been printed.
C1_Witness ==
    /\ Len(stdout) = 2
    /\ reported[1] = [scenario |-> "Mutant", phase |-> "Test", cargo_result |-> "Failure"]
    /\ stdout[1].text = "caught"
    /\ reported[2] = [scenario |-> "Baseline", phase |-> "Build", cargo_result |-> "Timeout"]
    /\ stdout[2].text = "TIMEOUT"

(***************************************************************************)
(* What the claims about discovery speak of.                               *)
(***************************************************************************)
\* The mutants walk_tree holds or has returned.
FoundMutants ==
    IF is_some(walk_result)
    THEN IF unwrap(walk_result).ok THEN unwrap(walk_result).mutants ELSE <<>>
    ELSE mutants

\* The files walk_tree holds as seen, or has returned.
FoundFiles ==
    IF is_some(walk_result)
    THEN IF unwrap(walk_result).ok THEN unwrap(walk_result).files ELSE <<>>
    ELSE seen_files

WalkReturnedOk == is_some(walk_result) /\ unwrap(walk_result).ok

WalkFailed == is_some(walk_result) /\ ~unwrap(walk_result).ok

QueuedPaths == {file_queue[i].tree_relative_path : i \in 1..Len(file_queue)}

DequeuedPaths == {p \in DOMAIN times_dequeued : times_dequeued[p] > 0}

\* The operators of a list of mutants.
OpsOf(ms) == [i \in 1..Len(ms) |-> ms[i].op]

(***************************************************************************)
(* C2: for a typed return other than (), the ops are True, False for the   *)
(* plain identifier bool; EmptyString, Xyzzy for the plain identifier      *)
(* String; OkDefault for a path whose last segment is Result; and Default  *)
(* for every other type.                                                   *)
(***************************************************************************)
\* The type is the path of that one identifier, with nothing around it.
IsPlainIdent(ty, ident) ==
    ty = [variant |-> "Path",
          path |-> [leading_colon |-> FALSE,
                    segments |-> <<[ident |-> ident, arguments |-> None]>>]]

EndsInResult(ty) ==
    /\ ty.variant = "Path"
    /\ ty.path.segments[Len(ty.path.segments)].ident = Idents.Result

C2_OpsForTypedReturn ==
    (is_some(collected) /\ sig_output.variant = "Type" /\ sig_output.ty # TypeUnit) =>
        LET ty == sig_output.ty
            ops == OpsOf(unwrap(collected))
        IN  /\ IsPlainIdent(ty, Idents.bool) => ops = <<"True", "False">>
            /\ IsPlainIdent(ty, Idents.String) => ops = <<"EmptyString", "Xyzzy">>
            /\ EndsInResult(ty) => ops = <<"OkDefault">>
            /\ (~IsPlainIdent(ty, Idents.bool) /\ ~IsPlainIdent(ty, Idents.String) /\ ~EndsInResult(ty))
                    => ops = <<"Default">>

\* The function returns ::String::Result<(), ()>, and gets OkDefault alone.
C2_Witness ==
    /\ sig_output = ReturnType(TypePath(Path(TRUE,
            <<PathSegment(Idents.String, None),
              PathSegment(Idents.Result, Some(<<TypeUnit, TypeUnit>>))>>)))
    /\ is_some(collected)
    /\ OpsOf(unwrap(collected)) = <<"OkDefault">>

(***************************************************************************)
(* C3: a function with no return type, or with `-> ()`, gets exactly one   *)
(* mutant, and its op is Unit.                                             *)
(***************************************************************************)
C3_UnitForNoReturn ==
    (is_some(collected) /\ sig_output \in {ReturnDefault, ReturnType(TypeUnit)}) =>
        OpsOf(unwrap(collected)) = <<"Unit">>

(***************************************************************************)
(* C4: no mutant replaces a function with an empty body, or one that       *)
(* carries #[cfg(test)], #[test] or #[mutants::skip] (as such or inside    *)
(* cfg_attr lists), or one inside a function, impl or module that does;    *)
(* and no file is walked that only a `mod` inside such an item names.      *)
(***************************************************************************)
RECURSIVE HoldsSkip(_)
\* A cfg_attr list with mutants::skip among its arguments, at any depth of
\* cfg_attr lists.
HoldsSkip(meta) ==
    /\ meta.kind = "List"
    /\ meta.path = IdentPath(Idents.cfg_attr)
    /\ \E i \in 1..Len(meta.nested) :
          \/ meta.nested[i] = MetaPath(<<Idents.mutants, Idents.skip>>)
          \/ (meta.nested[i].kind = "List" /\ HoldsSkip(meta.nested[i]))

\* The attributes the claim names.
CarriesExclusion(attrs) ==
    \E i \in 1..Len(attrs) :
        \/ attrs[i] = MetaList(Idents.cfg, <<MetaPath(<<Idents.test>>)>>)
        \/ attrs[i] = MetaPath(<<Idents.test>>)
        \/ attrs[i] = MetaPath(<<Idents.mutants, Idents.skip>>)
        \/ HoldsSkip(attrs[i])

RECURSIVE FunctionSites(_, _)
\* The functions among the nodes and inside them: the span of each, and
\* whether the claim shields it: its body is empty, or it or an item around
\* it carries an excluding attribute.
FunctionSites(nodes, shielded) ==
    UNION {
        LET n == nodes[i]
        IN  CASE n.node \in {"ItemFn", "ImplItemMethod"} ->
                    LET sh == shielded \/ CarriesExclusion(n.attrs) \/ n.stmts = <<>>
                    IN  {[span |-> n.span, shielded |-> sh]} \cup FunctionSites(n.stmts, sh)
              [] n.node = "ItemImpl" ->
                    FunctionSites(n.items, shielded \/ CarriesExclusion(n.attrs))
              [] n.node = "ItemMod" ->
                    IF n.content = None THEN {}
                    ELSE FunctionSites(n.content[1], shielded \/ CarriesExclusion(n.attrs))
              [] n.node = "Other" -> FunctionSites(n.children, shielded)
              [] OTHER -> {}
        : i \in 1..Len(nodes)}

RECURSIVE OpenModDecls(_, _)
\* The names of the `mod name;` statements among the nodes and inside them
\* that neither carry an excluding attribute nor sit inside an item shielded.
OpenModDecls(nodes, shielded) ==
    UNION {
        LET n == nodes[i]
        IN  CASE n.node \in {"ItemFn", "ImplItemMethod"} ->
                    OpenModDecls(n.stmts, shielded \/ CarriesExclusion(n.attrs))
              [] n.node = "ItemImpl" ->
                    OpenModDecls(n.items, shielded \/ CarriesExclusion(n.attrs))
              [] n.node = "ItemMod" ->
                    IF n.content = None
                    THEN IF shielded \/ CarriesExclusion(n.attrs) THEN {} ELSE {unraw(n.ident)}
                    ELSE OpenModDecls(n.content[1], shielded \/ CarriesExclusion(n.attrs))
              [] n.node = "Other" -> OpenModDecls(n.children, shielded)
              [] OTHER -> {}
        : i \in 1..Len(nodes)}

\* The files an open `mod` statement of file p may stand for.
OpenModFiles(p) ==
    IF ~source_tree.files[p].parses THEN {}
    ELSE {q \in DOMAIN source_tree.files :
            \E name \in OpenModDecls(source_tree.files[p].items, FALSE) :
                \E k \in 1..2 : mod_candidates(mod_dir(p), name)[k] = q}

RECURSIVE Reach(_, _)
Reach(set, n) ==
    IF n = 0 THEN set
    ELSE Reach(set \cup UNION {OpenModFiles(p) : p \in set}, n - 1)

\* The root files, and what open `mod` statements lead to from them.
OpenFiles ==
    Reach({source_tree.root_files[i].tree_relative_path :
             i \in 1..Len(source_tree.root_files)},
          Cardinality(DOMAIN source_tree.files))

C4_NoMutantOfExcluded ==
    /\ \A i \in 1..Len(FoundMutants) :
          LET m == FoundMutants[i]
              sites == FunctionSites(source_tree.files[m.source_file.tree_relative_path].items,
                                     FALSE)
          IN  /\ \E st \in sites : st.span = m.span
              /\ \A st \in sites : st.span = m.span => ~st.shielded
    /\ QueuedPaths \cup DequeuedPaths \subseteq OpenFiles

\* An impl under #[cfg_attr(test, cfg_attr(test, mutants::skip))], with a
\* method, a nested function and a `mod m;` inside: the walk is over, it
\* found no mutant and never went to src/m.rs.
C4_Witness ==
    /\ source_tree = AttrTree("impl", <<cfg_attr_skip(2)>>)
    /\ options.exclude_globset = None /\ options.examine_globset = None
    /\ options.examine_names = None /\ options.exclude_names = None
    /\ WalkReturnedOk
    /\ unwrap(walk_result).mutants = <<>>
    /\ unwrap(walk_result).files = <<SourceFile(Paths.lib, "pkg")>>
    /\ times_dequeued[Paths.m] = 0

(***************************************************************************)
(* C5: a file whose path fails the examine globset or matches the exclude  *)
(* globset gives no mutant and is not a seen file, and yet the files its   *)
(* `mod` statements name are enqueued and walked, and keep their mutants   *)
(* when their own paths pass.                                              *)
(***************************************************************************)
\* The path of the file popped, while the body of the loop has yet to run.
InTurn == IF popped = None THEN {} ELSE {unwrap(popped).tree_relative_path}

FailsGlobs(path) ==
    \/ (options.examine_globset # None /\ path \notin options.examine_globset[1])
    \/ (options.exclude_globset # None /\ path \in options.exclude_globset[1])

NoNameFilter ==
    /\ options.examine_names \in {None, Some(<<>>)}
    /\ options.exclude_names \in {None, Some(<<>>)}

C5_FilteredFileStillWalked ==
    /\ \A i \in 1..Len(FoundMutants) :
          ~FailsGlobs(FoundMutants[i].source_file.tree_relative_path)
    /\ \A i \in 1..Len(FoundFiles) : ~FailsGlobs(FoundFiles[i].tree_relative_path)
    /\ ~WalkFailed =>
          \A p \in DequeuedPaths \ InTurn :
              FailsGlobs(p) =>
                  LET named == walk_file(source_tree.files, SourceFile(p, "pkg")).more_files
                  IN  \A k \in 1..Len(named) :
                        /\ named[k] \in QueuedPaths \cup DequeuedPaths
                        /\ WalkReturnedOk => named[k] \in DequeuedPaths
    /\ (WalkReturnedOk /\ NoNameFilter) =>
          \A p \in DequeuedPaths :
              ~FailsGlobs(p) =>
                  LET own == walk_file(source_tree.files,
                                       CHOOSE f \in {FoundFiles[j] : j \in 1..Len(FoundFiles)} :
                                            f.tree_relative_path = p).mutants
                  IN  \A k \in 1..Len(own) : \E j \in 1..Len(FoundMutants) : FoundMutants[j] = own[k]

\* src/lib.rs is excluded by the globs; it holds a function and, through
\* it, `mod m;`. The walk is over: only src/m.rs is a seen file, and the
\* mutants are those of src/m.rs.
C5_Witness ==
    /\ source_tree = AttrTree("fn", <<>>)
    /\ options.examine_globset = None
    /\ options.exclude_globset = Some({Paths.lib})
    /\ NoNameFilter
    /\ WalkReturnedOk
    /\ unwrap(walk_result).files = <<SourceFile(Paths.m, "pkg")>>
    /\ OpsOf(unwrap(walk_result).mutants) = <<"EmptyString", "Xyzzy">>
    /\ \A i \in 1..2 : unwrap(walk_result).mutants[i].source_file.tree_relative_path = Paths.m

(***************************************************************************)
(* C6: no tree-relative path is dequeued and walked more than once.        *)
(***************************************************************************)
C6_EachPathWalkedOnce == \A p \in DOMAIN times_dequeued : times_dequeued[p] <= 1

(***************************************************************************)
(* C7: when every file parses and no interrupt is raised, walk_tree        *)
(* returns a result. A walk the model stops because a list has reached its *)
(* bound is left aside: what refutes the claim is a walk that goes on for  *)
(* ever with its lists as they are.                                        *)
(***************************************************************************)
AllFilesParse == \A p \in DOMAIN source_tree.files : source_tree.files[p].parses

AtListBound == Len(seen_files) >= MaxSeen \/ Len(mutants) >= MaxMutants

C7_WalkTerminates ==
    <>(WalkReturnedOk \/ interrupted \/ ~AllFilesParse \/ AtListBound)

(***************************************************************************)
(* C8: cargo_argv returns the cargo binary, the phase name, --tests exactly*)
(* in the Check and Build phases, then --package <name> or --workspace     *)
(* (never both), then the additional cargo arguments, then the additional  *)
(* test arguments exactly in the Test phase.                               *)
(***************************************************************************)
\* Where the package selection starts in the argv of the current phase.
SelectAt == IF phase \in {"Check", "Build"} THEN 4 ELSE 3

\* How many elements the package selection takes.
SelectLen == IF is_some(package_name) THEN 2 ELSE 1

C8_CargoArgvShape ==
    is_some(cargo_args) =>
        LET argv == unwrap(cargo_args)
            extraAt == SelectAt + SelectLen
            testAt == extraAt + Len(options.additional_cargo_args)
        IN  /\ argv[1] = (IF is_some(env_CARGO) THEN unwrap(env_CARGO) ELSE "cargo")
            /\ argv[2] = (CASE phase = "Check" -> "check"
                            [] phase = "Build" -> "build"
                            [] phase = "Test" -> "test")
            /\ (phase \in {"Check", "Build"}) => argv[3] = "--tests"
            /\ IF is_some(package_name)
               THEN /\ argv[SelectAt] = "--package"
                    /\ argv[SelectAt + 1] = unwrap(package_name)
               ELSE argv[SelectAt] = "--workspace"
            /\ SubSeq(argv, extraAt, testAt - 1) = options.additional_cargo_args
            /\ IF phase = "Test"
               THEN SubSeq(argv, testAt, Len(argv)) = options.additional_cargo_test_args
               ELSE Len(argv) = testAt - 1

\* The argv of a Build of one package, called with both kinds of extra
\* arguments: --tests is there, the test arguments are not.
C8_Witness ==
    /\ phase = "Build"
    /\ package_name = Some("cargo-mutants-testdata-something")
    /\ options.additional_cargo_args = <<"--release">>
    /\ options.additional_cargo_test_args = <<"--lib", "--release">>
    /\ cargo_args = Some(<<"cargo", "build", "--tests", "--package",
                           "cargo-mutants-testdata-something", "--release">>)

(***************************************************************************)
(* C9: whatever the two environment variables hold, the last of the pieces *)
(* of the string rustflags() returns, split on the unit separator, is      *)
(* --cap-lints=allow.                                                      *)
(***************************************************************************)
C9_CapLintsLast ==
    is_some(rustflags_result) =>
        LET pieces == split(unwrap(rustflags_result), US)
        IN  pieces[Len(pieces)] = CapLints

\* CARGO_ENCODED_RUSTFLAGS set to the empty string, RUSTFLAGS to a value
\* that holds a unit separator.
C9_Witness ==
    /\ env_CARGO_ENCODED_RUSTFLAGS = Some(<<>>)
    /\ env_RUSTFLAGS = Some(<<"a", US, "-">>)
    /\ is_some(rustflags_result)

(***************************************************************************)
(* C10: the base list comes from CARGO_ENCODED_RUSTFLAGS split on the unit *)
(* separator if that is set (RUSTFLAGS is then ignored), else from         *)
(* RUSTFLAGS split on space if that is set, else it is empty; the result   *)
(* is the list then --cap-lints=allow, joined with the unit separator.     *)
(***************************************************************************)
\* s with every space turned into a unit separator: what splitting on space
\* and joining with the unit separator comes to.
SpacesToUS(s) == [i \in 1..Len(s) |-> IF s[i] = SP THEN US ELSE s[i]]

C10_RustflagsPrecedence ==
    is_some(rustflags_result) =>
        LET r == unwrap(rustflags_result)
        IN  IF env_CARGO_ENCODED_RUSTFLAGS # None
            THEN r = unwrap(env_CARGO_ENCODED_RUSTFLAGS) \o <<US>> \o CapLints
            ELSE IF env_RUSTFLAGS # None
            THEN r = SpacesToUS(unwrap(env_RUSTFLAGS)) \o <<US>> \o CapLints
            ELSE r = CapLints

\* Both variables set, to different lists: the encoded one is used.
C10_Witness ==
    /\ env_CARGO_ENCODED_RUSTFLAGS = Some(<<"a", US, "a">>)
    /\ env_RUSTFLAGS = Some(<<"-", SP, "-">>)
    /\ rustflags_result = Some(<<"a", US, "a", US>> \o CapLints)

\* Only RUSTFLAGS set: its spaces separate the flags.
C10_WitnessRustflags ==
    /\ env_CARGO_ENCODED_RUSTFLAGS = None
    /\ env_RUSTFLAGS = Some(<<"-", SP, "a">>)
    /\ rustflags_result = Some(<<"-", US, "a", US>> \o CapLints)


(***************************************************************************)
(* C11                                                                     *)
(***************************************************************************)
\* The suffix of a kind string, read character by character.
HasSuffix(k, suffix) ==
    /\ Len(k) >= Len(suffix)
    /\ \A j \in 1..Len(suffix) : k[Len(k) - Len(suffix) + j] = suffix[j]

KindQualifies(k) == HasSuffix(k, <<"l", "i", "b">>) \/ k = <<"b", "i", "n">>

\* C11: should_mutate_target is true exactly when some kind of the list ends
\* with "lib" or is "bin"; it is false for the empty list and for lists of
\* test, bench, example and custom-build kinds only.
C11_ShouldMutateTarget ==
    is_some(mutate_target) =>
        /\ unwrap(mutate_target) = (\E i \in DOMAIN target_kind : KindQualifies(target_kind[i]))
        /\ target_kind = <<>> => unwrap(mutate_target) = FALSE
        /\ (\A i \in DOMAIN target_kind :
                target_kind[i] \in {<<"t", "e", "s", "t">>, <<"b", "e", "n", "c", "h">>,
                                    <<"e", "x", "a", "m", "p", "l", "e">>,
                                    <<"c", "u", "s", "t", "o", "m", "-", "b", "u", "i", "l", "d">>})
           => unwrap(mutate_target) = FALSE

\* A test target that is also an "xbin" is not mutated.
C11_Witness ==
    /\ mutate_target = Some(FALSE)
    /\ target_kind = <<<<"t", "e", "s", "t">>, <<"x", "b", "i", "n">>>>

\* A cdylib next to a bench is mutated.
C11_WitnessLib ==
    /\ mutate_target = Some(TRUE)
    /\ target_kind = <<<<"b", "e", "n", "c", "h">>, <<"c", "d", "y", "l", "i", "b">>>>

(***************************************************************************)
(* C12                                                                     *)
(***************************************************************************)
\* C12: remove_excess_spaces is idempotent: applied to its own output, it
\* returns that output unchanged.
C12_Idempotent ==
    is_some(text_out) => remove_excess_spaces(unwrap(text_out)) = unwrap(text_out)


(***************************************************************************)
(* C13                                                                     *)
(***************************************************************************)
RECURSIVE JoinNormalized(_)
\* The names, each with its excess spaces removed, with "::" between them.
JoinNormalized(names) ==
    IF Len(names) = 1 THEN remove_excess_spaces(names[1])
    ELSE JoinNormalized(SubSeq(names, 1, Len(names) - 1)) \o <<":", ":">>
         \o remove_excess_spaces(names[Len(names)])

\* The name an impl goes by: its type, or <impl Trait for Type>.
ImplName(n) ==
    IF n.trait_ = None THEN type_name_string(n.self_ty)
    ELSE <<"<", "i", "m", "p", "l", " ">> \o n.trait_[1].segments[Len(n.trait_[1].segments)].ident
         \o <<" ", "f", "o", "r", " ">> \o type_name_string(n.self_ty) \o <<">">>

RECURSIVE NamedFunctions(_, _)
\* The functions among the nodes and inside them: the span of each, and the
\* name it has from the modules, impls and functions around it and itself.
NamedFunctions(nodes, around) ==
    UNION {
        LET n == nodes[i]
        IN  CASE n.node \in {"ItemFn", "ImplItemMethod"} ->
                    LET inner == Append(around, n.ident)
                    IN  {[span |-> n.span, name |-> JoinNormalized(inner)]}
                        \cup NamedFunctions(n.stmts, inner)
              [] n.node = "ItemImpl" -> NamedFunctions(n.items, Append(around, ImplName(n)))
              [] n.node = "ItemMod" ->
                    IF n.content = None THEN {}
                    ELSE NamedFunctions(n.content[1], Append(around, unraw(n.ident)))
              [] n.node = "Other" -> NamedFunctions(n.children, around)
              [] OTHER -> {}
        : i \in 1..Len(nodes)}

\* C13: the function name of every mutant is the "::"-join of the
\* space-normalized names of the modules, impls and functions around the
\* function and of the function; and the visit of a file leaves the
\* namespace stack as it found it, empty when it started empty, with no
\* failed assertion of in_namespace.
C13_FullFunctionName ==
    /\ \A i \in 1..Len(FoundMutants) :
          LET m == FoundMutants[i]
              items == source_tree.files[m.source_file.tree_relative_path].items
          IN  [span |-> m.span, name |-> m.function_name] \in NamedFunctions(items, <<>>)
    /\ \A p \in DequeuedPaths \ InTurn :
          source_tree.files[p].parses =>
              \A stack \in {<<>>, <<Idents.hh>>} :
                  LET v == visit_each([NewVisitor EXCEPT !.namespace_stack = stack],
                                      source_tree.files, SourceFile(p, "pkg"),
                                      source_tree.files[p].items)
                  IN  v.namespace_stack = stack /\ ~v.panicked

\* `impl Result<(), ()> { fn ff() -> u8 { .. } }`: the walk is over and the
\* mutant's function is Result<(), ()>::ff.
C13_Witness ==
    /\ source_tree = ImplTree(None, Types.Result)
    /\ WalkReturnedOk
    /\ Len(unwrap(walk_result).mutants) = 2
    /\ unwrap(walk_result).mutants[1].function_name
         = <<"R", "e", "s", "u", "l", "t", "<", "(", ")", ",", " ", "(", ")", ">", ":", ":">>
           \o Idents.ff

\* A function nested in a method of `impl Debug for u8`.
C13_WitnessNested ==
    /\ source_tree = AttrTree("impl", <<>>)
    /\ WalkReturnedOk
    /\ \E i \in 1..Len(unwrap(walk_result).mutants) :
          unwrap(walk_result).mutants[i].function_name
            = <<"<", "i", "m", "p", "l", " ", "D", "e", "b", "u", "g", " ", "f", "o", "r", " ",
                "u", "8", ">", ":", ":">> \o Idents.ff \o <<":", ":">> \o Idents.gg


(***************************************************************************)
(* C14                                                                     *)
(***************************************************************************)
RECURSIVE SpansInOrder(_)
\* The spans of the functions among the nodes and inside them, as they
\* occur in the source: a function before what its body holds.
SpansInOrder(nodes) ==
    IF nodes = <<>> THEN <<>>
    ELSE LET n == nodes[1]
             here ==
                CASE n.node \in {"ItemFn", "ImplItemMethod"} -> <<n.span>> \o SpansInOrder(n.stmts)
                  [] n.node = "ItemImpl" -> SpansInOrder(n.items)
                  [] n.node = "ItemMod" ->
                        IF n.content = None THEN <<>> ELSE SpansInOrder(n.content[1])
                  [] n.node = "Other" -> SpansInOrder(n.children)
                  [] OTHER -> <<>>
         IN  here \o SpansInOrder(SubSeq(nodes, 2, Len(nodes)))

\* Where the function of mutant m occurs among the functions of its file.
PlaceInSource(m) ==
    LET spans == SpansInOrder(source_tree.files[m.source_file.tree_relative_path].items)
    IN  CHOOSE k \in 1..Len(spans) :
            spans[k] = m.span /\ \A j \in 1..(k - 1) : spans[j] # m.span

\* Where a file first occurs among the files walked.
PlaceInWalk(f) ==
    CHOOSE k \in 1..Len(FoundFiles) :
        FoundFiles[k] = f /\ \A j \in 1..(k - 1) : FoundFiles[j] # f

IsSeed(f) == \E i \in 1..Len(source_tree.root_files) : source_tree.root_files[i] = f

\* C14: in the list walk_tree returns, the mutants of one file are next to
\* one another and in the order of their functions in the source, an outer
\* function before those nested in it; the files come in the order they
\* were dequeued: the seed files in seed order, then the files discovered.
C14_ResultOrdered ==
    WalkReturnedOk =>
        LET ms == unwrap(walk_result).mutants
            fs == unwrap(walk_result).files
        IN  /\ \A i, j, k \in 1..Len(ms) :
                  (i < j /\ j < k /\ ms[i].source_file = ms[k].source_file)
                      => ms[j].source_file = ms[i].source_file
            /\ \A i, j \in 1..Len(ms) :
                  (i < j /\ ms[i].source_file = ms[j].source_file)
                      => PlaceInSource(ms[i]) <= PlaceInSource(ms[j])
            /\ \A i, j \in 1..Len(ms) :
                  i < j => PlaceInWalk(ms[i].source_file) <= PlaceInWalk(ms[j].source_file)
            /\ \A i, j \in 1..Len(fs) :
                  (IsSeed(fs[i]) /\ ~IsSeed(fs[j])) => PlaceInWalk(fs[i]) < PlaceInWalk(fs[j])
            /\ \A a, b \in 1..Len(source_tree.root_files) :
                  LET f == source_tree.root_files[a]
                      g == source_tree.root_files[b]
                      among(x) == \E i \in 1..Len(fs) : fs[i] = x
                  IN  (a < b /\ f # g /\ among(f) /\ among(g))
                          => PlaceInWalk(f) < PlaceInWalk(g)


C17_RunCargoReturns ==
    /\ [](ticks = sleeps /\ sleeps = elapsed)
    /\ [](is_some(process_status) => pc \in {"finish", "done"})
    /\ [][pc = "finish" => (ticks' = ticks /\ sleeps' = sleeps /\ pc' \in {"finish", "done"})]_vars
    /\ []((pc = "done" /\ ~interrupted) =>
            /\ is_some(run_result)
            /\ unwrap(run_result).ok
            /\ unwrap(run_result).value = unwrap(process_status)
            /\ exit_status = None =>
                  /\ unwrap(run_result).value = "Timeout"
                  /\ child = "terminated"
                  /\ elapsed = timeout + 1
            /\ is_some(exit_status) => elapsed <= timeout + 1)
    /\ <>(pc = "done" \/ interrupted)

\* The child never exited: after three polls that found it running, the
\* fourth, past the timeout of two intervals, terminated it, and run_cargo
\* returned Ok(Timeout).
C17_Witness ==
    /\ pc = "done"
    /\ ~interrupted
    /\ timeout = 2
    /\ ticks = 3 /\ sleeps = 3
    /\ child = "terminated"
    /\ run_result = Some([ok |-> TRUE, value |-> "Timeout"])


(***************************************************************************)
(* C18                                                                     *)
(***************************************************************************)
\* Some pattern of the option's set matches the display name of m; FALSE
\* for an option that is absent.
NameMatches(option, m) ==
    /\ option # None
    /\ \E k \in 1..Len(option[1]) : contains(mutant_to_string(m), option[1][k])

Filters(option) == option # None /\ option[1] # <<>>

\* What the claim keeps of a mutant.
KeptByNames(m) ==
    /\ Filters(options.examine_names) => NameMatches(options.examine_names, m)
    /\ Filters(options.exclude_names) => ~NameMatches(options.exclude_names, m)

\* C18: a turn of the loop on a file that passes the globs appends, of the
\* file's mutants and in their order, those whose display name matches
\* examine_names, when that is set and not empty, and does not match
\* exclude_names, when that is set and not empty; and it records the file
\* as seen, whatever it kept.
C18_NameFilters ==
    [][(popped # None /\ popped' = None /\ walk_result' = None
            /\ ~FailsGlobs(unwrap(popped).tree_relative_path))
        => /\ mutants' = mutants \o SelectSeq(walk_file(source_tree.files, unwrap(popped)).mutants,
                                             KeptByNames)
           /\ seen_files' = Append(seen_files, unwrap(popped))]_vars

\* examine_names is [ff], exclude_names is [gg, bool]. Of src/lib.rs, ff's
\* two mutants match both (ff and bool) and those of ff::gg match both;
\* that of hh in src/m.rs does not match ff. No mutant is left, and both
\* files are seen.
C18_Witness ==
    /\ source_tree = AttrTree("fn", <<>>)
    /\ options.examine_globset = None /\ options.exclude_globset = None
    /\ options.examine_names = Some(<<Idents.ff>>)
    /\ options.exclude_names = Some(<<Idents.gg, Idents.bool>>)
    /\ WalkReturnedOk
    /\ unwrap(walk_result).mutants = <<>>
    /\ unwrap(walk_result).files = <<SourceFile(Paths.lib, "pkg"), SourceFile(Paths.m, "pkg")>>

\* examine_names is empty and exclude_names is [gg, bool]: the two mutants
\* of hh are kept, those of ff and ff::gg are dropped.
C18_WitnessKept ==
    /\ source_tree = AttrTree("fn", <<>>)
    /\ options.examine_globset = None /\ options.exclude_globset = None
    /\ options.examine_names = Some(<<>>)
    /\ options.exclude_names = Some(<<Idents.gg, Idents.bool>>)
    /\ WalkReturnedOk
    /\ Len(unwrap(walk_result).mutants) = 2


(***************************************************************************)
(* C19                                                                     *)
(***************************************************************************)
\* The directory the claim names for the file at path p.
SearchDir(p) ==
    LET base == p[Len(p)]
        above == SubSeq(p, 1, Len(p) - 1)
    IN  IF base \in {<<"m", "o", "d", ".", "r", "s">>, <<"l", "i", "b", ".", "r", "s">>,
                     <<"m", "a", "i", "n", ".", "r", "s">>}
        THEN above
        ELSE above \o <<SubSeq(base, 1, Len(base) - 3)>>

\* The file `mod name;` in the file at p stands for: <dir>/<name>.rs when
\* that is a file, else <dir>/<name>/mod.rs when that is, else none.
Resolve(p, name) ==
    LET first == SearchDir(p) \o <<name \o <<".", "r", "s">>>>
        second == SearchDir(p) \o <<name, <<"m", "o", "d", ".", "r", "s">>>>
    IN  IF first \in DOMAIN source_tree.files THEN {first}
        ELSE IF second \in DOMAIN source_tree.files THEN {second}
        ELSE {}

RECURSIVE ModStatements(_)
\* The names of all the `mod name;` statements among the nodes and inside
\* them, one for each statement.
ModStatements(nodes) ==
    IF nodes = <<>> THEN <<>>
    ELSE LET n == nodes[1]
             here ==
                CASE n.node \in {"ItemFn", "ImplItemMethod"} -> ModStatements(n.stmts)
                  [] n.node = "ItemImpl" -> ModStatements(n.items)
                  [] n.node = "ItemMod" ->
                        IF n.content = None THEN <<unraw(n.ident)>>
                        ELSE ModStatements(n.content[1])
                  [] n.node = "Other" -> ModStatements(n.children)
                  [] OTHER -> <<>>
         IN  here \o ModStatements(SubSeq(nodes, 2, Len(nodes)))

\* C19: the files a walked file adds to the queue are those its `mod name;`
\* statements stand for: for a statement no attribute excludes, the one of
\* <dir>/<name>.rs and <dir>/<name>/mod.rs that is a file, the first when
\* both are, and none, with no error, when neither is; at most one path for
\* each statement.
C19_ModResolution ==
    \A p \in DequeuedPaths \ InTurn :
        source_tree.files[p].parses =>
            LET items == source_tree.files[p].items
                walked == walk_file(source_tree.files, SourceFile(p, "pkg"))
                named == {walked.more_files[k] : k \in 1..Len(walked.more_files)}
                stated == ModStatements(items)
            IN  /\ walked.ok
                /\ \A q \in named : \E k \in 1..Len(stated) : q \in Resolve(p, stated[k])
                /\ \A name \in OpenModDecls(items, FALSE) : Resolve(p, name) \subseteq named
                /\ Len(walked.more_files) <= Len(stated)
                /\ ~WalkFailed => named \subseteq QueuedPaths \cup DequeuedPaths

\* src/lib.rs says `mod a;`; src/a.rs and src/a/mod.rs are both there, and
\* src/a.rs says `mod r#b;` where src/a/b.rs is. The walk is over: it went
\* to src/a.rs and to src/a/b.rs, and not to src/a/mod.rs.
C19_Witness ==
    /\ Paths.a_mod \in DOMAIN source_tree.files
    /\ Paths.a \in DOMAIN source_tree.files
    /\ Paths.a_b \in DOMAIN source_tree.files
    /\ WalkReturnedOk
    /\ times_dequeued[Paths.lib] = 1
    /\ times_dequeued[Paths.a] = 1
    /\ times_dequeued[Paths.a_b] = 1
    /\ times_dequeued[Paths.a_mod] = 0

\* src/lib.rs says `mod a;` and neither file is there: the walk returns Ok
\* with the mutants of src/lib.rs.
C19_WitnessNotFound ==
    /\ DOMAIN source_tree.files = {Paths.lib}
    /\ ModStatements(source_tree.files[Paths.lib].items) = <<<<"a">>>>
    /\ WalkReturnedOk
    /\ Len(unwrap(walk_result).mutants) = 2


(***************************************************************************)
(* C20                                                                     *)
(***************************************************************************)
RECURSIVE ConstructorSites(_, _)
\* The spans of the functions among the nodes and inside them that are a
\* method named `new`, or inside one, or inside an impl of a trait whose
\* path ends in Default. inside says that the nodes are in such a place.
ConstructorSites(nodes, inside) ==
    UNION {
        LET n == nodes[i]
        IN  CASE n.node = "ImplItemMethod" ->
                    LET in == inside \/ n.ident = <<"n", "e", "w">>
                    IN  (IF in THEN {n.span} ELSE {}) \cup ConstructorSites(n.stmts, in)
              [] n.node = "ItemFn" ->
                    (IF inside THEN {n.span} ELSE {}) \cup ConstructorSites(n.stmts, inside)
              [] n.node = "ItemImpl" ->
                    ConstructorSites(n.items,
                        \/ inside
                        \/ /\ n.trait_ # None
                           /\ n.trait_[1].segments[Len(n.trait_[1].segments)].ident
                                = <<"D", "e", "f", "a", "u", "l", "t">>)
              [] n.node = "ItemMod" ->
                    IF n.content = None THEN {} ELSE ConstructorSites(n.content[1], inside)
              [] n.node = "Other" -> ConstructorSites(n.children, inside)
              [] OTHER -> {}
        : i \in 1..Len(nodes)}

\* The free functions named `new` at the top of a file, with a body and no
\* attribute.
FreeNews(items) ==
    {i \in 1..Len(items) :
        /\ items[i].node = "ItemFn"
        /\ items[i].ident = <<"n", "e", "w">>
        /\ items[i].attrs = <<>>
        /\ items[i].stmts # <<>>}

\* C20: no mutant is of a method named `new` of an impl, of a function
\* nested in one, or of anything in an impl of a trait whose path ends in
\* Default; a free function named `new` has its mutants like any other.
C20_ConstructorsNotMutated ==
    /\ \A i \in 1..Len(FoundMutants) :
          LET m == FoundMutants[i]
          IN  m.span \notin
                ConstructorSites(source_tree.files[m.source_file.tree_relative_path].items, FALSE)
    /\ (WalkReturnedOk /\ NoNameFilter) =>
          \A k \in 1..Len(FoundFiles) :
              LET items == source_tree.files[FoundFiles[k].tree_relative_path].items
              IN  \A n \in FreeNews(items) :
                    \E i \in 1..Len(FoundMutants) :
                        /\ FoundMutants[i].source_file = FoundFiles[k]
                        /\ FoundMutants[i].span = items[n].span
                        /\ FoundMutants[i].function_name = <<"n", "e", "w">>

\* `impl u8 { fn new() -> bool { ..; fn gg() {..} } }`: the walk is over,
\* the file is seen, and there is no mutant.
C20_Witness ==
    /\ source_tree = FnTree("method", Idents.new, ReturnType(Types.bool), FALSE)
    /\ NoNameFilter
    /\ WalkReturnedOk
    /\ unwrap(walk_result).files = <<SourceFile(Paths.lib, "pkg")>>
    /\ unwrap(walk_result).mutants = <<>>

\* `impl std::Default for u8 { fn ff() -> u8 { ..; fn gg() {..} } }`: no
\* mutant.
C20_WitnessDefault ==
    /\ source_tree = ImplTree(Some(Path(FALSE, <<PathSegment(Idents.std, None),
                                                 PathSegment(Idents.Default, None)>>)),
                              Types.u8)
    /\ WalkReturnedOk
    /\ unwrap(walk_result).files = <<SourceFile(Paths.lib, "pkg")>>
    /\ unwrap(walk_result).mutants = <<>>

\* The free function `fn new() -> bool { ..; fn gg() {..} }`: its two
\* mutants and that of new::gg.
C20_WitnessFreeNew ==
    /\ source_tree = FnTree("fn", Idents.new, ReturnType(Types.bool), FALSE)
    /\ NoNameFilter
    /\ WalkReturnedOk
    /\ OpsOf(unwrap(walk_result).mutants) = <<"True", "False", "Unit">>


(***************************************************************************)
(* C21                                                                     *)
(***************************************************************************)
\* The file popped does not parse, or names with `mod` a file that cannot
\* be read.
PoppedFileFails ==
    LET f == source_tree.files[popped[1].tree_relative_path]
    IN  \/ ~f.parses
        \/ \E name \in OpenModDecls(f.items, FALSE) :
              \E q \in Resolve(popped[1].tree_relative_path, name) : ~source_tree.files[q].reads

\* C21: walk_tree looks at the interrupt flag before it processes a file it
\* has dequeued; when the flag is set then, or when a file fails to parse or
\* to be read, walk_tree returns an error, and nothing of the mutants and
\* seen files collected from earlier files is returned or kept.
C21_NoPartialResults ==
    /\ [][(walk_result = None /\ popped = None /\ file_queue # file_queue')
            => IF interrupted
               THEN walk_result' = <<[ok |-> FALSE, error |-> "Interrupted"]>>
               ELSE popped' = <<file_queue[1]>> /\ walk_result' = None]_vars
    /\ [][(walk_result = None /\ popped # None /\ popped' = None)
            => (PoppedFileFails <=> (walk_result' # None /\ ~walk_result'[1].ok))]_vars
    /\ [](WalkFailed =>
            /\ DOMAIN walk_result[1] = {"ok", "error"}
            /\ mutants = <<>>
            /\ seen_files = <<>>
            /\ file_queue = <<>>)

\* src/lib.rs was walked and its two mutants collected; src/a.rs, which it
\* names, did not parse: walk_tree returned the error and no mutant.
C21_Witness ==
    /\ WalkFailed
    /\ ~interrupted
    /\ unwrap(walk_result).error = "failed to parse"
    /\ times_dequeued[Paths.lib] = 1
    /\ times_dequeued[Paths.a] = 1
    /\ passes_globs(options, Paths.lib)
    /\ NoNameFilter
    /\ walk_file(source_tree.files, SourceFile(Paths.lib, "pkg")).mutants # <<>>
    /\ mutants = <<>>

\* The flag was set after src/lib.rs had been walked and its mutants
\* collected; at the next file walk_tree returned Interrupted.
C21_WitnessInterrupted ==
    /\ WalkFailed
    /\ interrupted
    /\ unwrap(walk_result).error = "Interrupted"
    /\ source_tree = AttrTree("fn", <<>>)
    /\ times_dequeued[Paths.lib] = 1
    /\ times_dequeued[Paths.m] = 1
    /\ passes_globs(options, Paths.lib)
    /\ NoNameFilter

\* src/a.rs, which src/lib.rs names, cannot be read.
C21_WitnessUnreadable ==
    /\ WalkFailed
    /\ unwrap(walk_result).error = "failed to read"


(***************************************************************************)
(* C22                                                                     *)
(***************************************************************************)
\* C22: run_cargo, called with the interrupt flag set, returns the
\* Interrupted error and starts no child: its first step from such a call
\* is that return, the child still not there.
C22_NoSpawnWhenInterrupted ==
    [][(pc = "start" /\ interrupted /\ pc' # "start")
        => /\ pc' = "done"
           /\ child' = "none"
           /\ run_result' = <<[ok |-> FALSE, error |-> "Interrupted"]>>]_vars

====
